---- MODULE Spec2Model ----
(***************************************************************************)
(* A model of smartdoc_agent/utils/document_utils.py: the element          *)
(* inspector (get_paragraph_details, get_document_analysis), the scope     *)
(* resolver (_get_target_paragraphs) and the action handlers               *)
(* (apply_set_font_action, apply_set_heading_style_action, ...) acting on  *)
(* a python-docx document, and the table utilities (add_table,             *)
(* format_table_cell, merge_table_cells).                                  *)
(*                                                                         *)
(* Strings the code parses (scope strings, style names) are sequences of   *)
(* one-character strings.  Python's None is the empty tuple <<>> and a     *)
(* present value v is <<v>>.  Positions in doc.paragraphs are 0-based as   *)
(* in the code; the paragraph at position i is doc[i + 1].                 *)
(***************************************************************************)
EXTENDS Integers, Sequences, FiniteSets, TLC

VARIABLES
    doc,        \* the live document: the sequence doc.paragraphs
    elements,   \* the elements_details list handed to the last call
    pre,        \* the document as it was before the last call
    call,       \* the last call: its name and its arguments
    ret,        \* what the last call returned: raised, resolved paragraphs
    lib,        \* what the installed python-docx does with a negative length
    tables,     \* the live document: the sequence doc.tables
    out         \* what the last call returned or reported besides: ok, n

vars == <<doc, elements, pre, call, ret, lib, tables, out>>

----------------------------------------------------------------------------
(* Bounds of the model. *)

\* Longest document, in paragraphs.
MaxParas == 2

\* Most rows and most columns asked of a table.
MaxDim == 2

\* Most tables added to a document.
MaxTables == 2

\* Most shadings applied to one cell.
MaxShadings == 2

----------------------------------------------------------------------------
(* Python values *)

None == <<>>
Some(v) == <<v>>
IsNone(o) == o = <<>>
Val(o) == o[1]

\* Truthiness of an optional integer: None and 0 are falsy.
TruthyInt(o) == o # None /\ Val(o) # 0
\* Truthiness of an optional string: None and "" are falsy.
TruthyStr(o) == o # None /\ Val(o) # ""

Max(S) == CHOOSE x \in S : \A y \in S : y <= x
Min(S) == CHOOSE x \in S : \A y \in S : x <= y

----------------------------------------------------------------------------
(* Strings as sequences of characters *)

Digits == <<"0", "1", "2", "3", "4", "5", "6", "7", "8", "9">>
IsDigit(c) == \E i \in 1..10 : Digits[i] = c
DigitVal(c) == (CHOOSE i \in 1..10 : Digits[i] = c) - 1

\* str.startswith
StartsWith(s, p) == Len(s) >= Len(p) /\ SubSeq(s, 1, Len(p)) = p

\* s.split(sep)[-1]: what follows the last occurrence of the character sep,
\* the whole string when sep does not occur.
SplitLast(s, sep) ==
    LET at == {i \in 1..Len(s) : s[i] = sep}
    IN  IF at = {} THEN s ELSE SubSeq(s, Max(at) + 1, Len(s))

\* str.strip() of blanks, as int() does before it parses.
Strip(s) ==
    LET keep == {i \in 1..Len(s) : s[i] # " "}
    IN  IF keep = {} THEN <<>> ELSE SubSeq(s, Min(keep), Max(keep))

RECURSIVE DigitsValue(_)
\* The value of a sequence of digits and underscores, underscores skipped.
DigitsValue(s) ==
    IF s = <<>> THEN 0
    ELSE LET c == s[Len(s)]
             rest == SubSeq(s, 1, Len(s) - 1)
         IN  IF c = "_" THEN DigitsValue(rest)
             ELSE 10 * DigitsValue(rest) + DigitVal(c)

\* Python's int(str): blanks around, an optional sign, then digits with
\* single underscores allowed between digits.  ok = FALSE is ValueError.
ParseInt(s) ==
    LET t == Strip(s)
        signed == t # <<>> /\ t[1] \in {"+", "-"}
        body == IF signed THEN Tail(t) ELSE t
        wellFormed ==
            /\ body # <<>>
            /\ \A i \in 1..Len(body) : IsDigit(body[i]) \/ body[i] = "_"
            /\ IsDigit(body[1]) /\ IsDigit(body[Len(body)])
            /\ \A i \in 1..(Len(body) - 1) : ~(body[i] = "_" /\ body[i + 1] = "_")
    IN  IF ~wellFormed THEN [ok |-> FALSE, v |-> 0]
        ELSE [ok |-> TRUE,
              v |-> IF signed /\ t[1] = "-" THEN 0 - DigitsValue(body)
                    ELSE DigitsValue(body)]

RECURSIVE NatToStr(_)
NatToStr(n) ==
    IF n < 10 THEN <<Digits[n + 1]>>
    ELSE NatToStr(n \div 10) \o <<Digits[(n % 10) + 1]>>

\* str(int), as an f-string formats an integer.
IntToStr(n) == IF n < 0 THEN <<"-">> \o NatToStr(0 - n) ELSE NatToStr(n)

\* String literals of the source.
S_Heading == <<"H", "e", "a", "d", "i", "n", "g">>
S_Title == <<"T", "i", "t", "l", "e">>
S_Normal == <<"N", "o", "r", "m", "a", "l">>
S_None == <<"N", "o", "n", "e">>
S_all_paragraphs ==
    <<"a", "l", "l", "_", "p", "a", "r", "a", "g", "r", "a", "p", "h", "s">>
S_all_body_paragraphs ==
    <<"a", "l", "l", "_", "b", "o", "d", "y", "_",
      "p", "a", "r", "a", "g", "r", "a", "p", "h", "s">>
S_headings_level_ ==
    <<"h", "e", "a", "d", "i", "n", "g", "s", "_", "l", "e", "v", "e", "l", "_">>
S_paragraph_index_ ==
    <<"p", "a", "r", "a", "g", "r", "a", "p", "h", "_",
      "i", "n", "d", "e", "x", "_">>

----------------------------------------------------------------------------
(* Element inspector *)

\* get_run_details: the font attributes of a run as the inspector reports
\* them, the size in points (run.font.size.pt).
get_run_details(run) ==
    [text |-> run.text,
     font_name |-> run.name,
     font_size |-> IF run.sz # None THEN Some(Val(run.sz) \div 2) ELSE None,
     bold |-> run.bold, italic |-> run.italic, underline |-> run.underline]

\* para.text: the texts of the runs, one after the other.
RECURSIVE ParagraphText(_)
ParagraphText(runs) ==
    IF runs = <<>> THEN <<>> ELSE Head(runs).text \o ParagraphText(Tail(runs))

\* get_paragraph_details: the record of the paragraph para at position
\* para_index.  "level" is None when the dict has no such key.
get_paragraph_details(para, para_index) ==
    LET name == para.style
        base == [paragraph_index |-> Some(para_index),
                 text |-> ParagraphText(para.runs),
                 style_name |-> name,
                 alignment |-> para.alignment,
                 runs |-> [i \in 1..Len(para.runs) |-> get_run_details(para.runs[i])]]
    IN  IF StartsWith(name, S_Heading)
        THEN LET p == ParseInt(SplitLast(name, " "))
             IN  IF p.ok
                 THEN [type |-> Some("heading"), level |-> Some(p.v)] @@ base
                 ELSE [type |-> Some("paragraph"), level |-> Some(0)] @@ base
        ELSE IF name = S_Title
        THEN [type |-> Some("heading"), level |-> Some(0)] @@ base
        ELSE [type |-> Some("paragraph"), level |-> None] @@ base

\* get_document_analysis numbering the paragraphs from 1, as
\* enumerate(document.paragraphs, 1) does.
get_document_analysis_FromOne(d) ==
    [i \in 1..Len(d) |-> get_paragraph_details(d[i], i)]

\* get_document_analysis(document)["elements"]
get_document_analysis(d) ==
    [i \in 1..Len(d) |-> get_paragraph_details(d[i], i - 1)]

----------------------------------------------------------------------------
(* Scope resolver *)

\* One matching record of the resolver's loops: the guard
\* el_detail["paragraph_index"] < len(doc.paragraphs) and the subscript
\* doc.paragraphs[el_detail["paragraph_index"]].  A record without the key
\* raises KeyError; a negative index counts from the end of the list and
\* raises IndexError below -len.
TargetOf(n, el) ==
    IF el.paragraph_index = None THEN [kind |-> "KeyError", at |-> 0]
    ELSE LET i == Val(el.paragraph_index)
         IN  IF i >= n THEN [kind |-> "skip", at |-> 0]
             ELSE IF i >= 0 THEN [kind |-> "take", at |-> i]
             ELSE IF i >= 0 - n THEN [kind |-> "take", at |-> n + i]
             ELSE [kind |-> "IndexError", at |-> 0]

RECURSIVE AppendTargets(_, _, _)
\* The for loop over the matching records: paragraphs appended in list
\* order until a record raises.
AppendTargets(n, matched, acc) ==
    IF matched = <<>> THEN [raised |-> "", paras |-> acc]
    ELSE LET t == TargetOf(n, Head(matched))
         IN  IF t.kind \in {"KeyError", "IndexError"}
             THEN [raised |-> t.kind, paras |-> <<>>]
             ELSE AppendTargets(n, Tail(matched),
                                IF t.kind = "take" THEN Append(acc, t.at) ELSE acc)

\* The trailing integer of a prefixed scope: int(scope.split("_")[-1]).
ScopeNumber(s) == ParseInt(SplitLast(s, "_"))

NoTargets == [raised |-> "", paras |-> <<>>]

\* AllTargets with the first paragraph left out, as doc.paragraphs[1:].
AllTargets_SkipFirst(d) == [raised |-> "", paras |-> [i \in 1..(Len(d) - 1) |-> i]]

\* scope == "all_paragraphs": target_paras = doc.paragraphs
AllTargets(d) == [raised |-> "", paras |-> [i \in 1..Len(d) |-> i - 1]]

\* HeadingTargets without the test of the record's type.
HeadingTargets_LevelOnly(d, elements_details, s) ==
    LET num == ScopeNumber(s)
        HasLevel(el) == el.level = Some(num.v)
    IN  IF num.ok
        THEN AppendTargets(Len(d), SelectSeq(elements_details, HasLevel), <<>>)
        ELSE NoTargets

\* scope.startswith("headings_level_"): the records of type heading whose
\* level is the scope's number; ValueError from int() is caught.
HeadingTargets(d, elements_details, s) ==
    LET num == ScopeNumber(s)
        IsHeading(el) == el.type = Some("heading") /\ el.level = Some(num.v)
    IN  IF num.ok
        THEN AppendTargets(Len(d), SelectSeq(elements_details, IsHeading), <<>>)
        ELSE NoTargets

\* IndexTargets with idx < len(doc.paragraphs) as its only bound, so that
\* a negative idx subscripts from the end of the list.
IndexTargets_NoLowerBound(d, s) ==
    LET num == ScopeNumber(s)
    IN  IF num.ok /\ num.v < Len(d) /\ num.v >= 0 - Len(d)
        THEN [raised |-> "", paras |-> <<IF num.v < 0 THEN Len(d) + num.v ELSE num.v>>]
        ELSE NoTargets

\* scope.startswith("paragraph_index_"): the paragraph at the scope's
\* number when 0 <= idx < len(doc.paragraphs); ValueError is caught.
IndexTargets(d, s) ==
    LET num == ScopeNumber(s)
    IN  IF num.ok /\ 0 <= num.v /\ num.v < Len(d)
        THEN [raised |-> "", paras |-> <<num.v>>]
        ELSE NoTargets

\* BodyTargets taking a record for a body paragraph when it has no level.
BodyTargets_NoLevel(d, elements_details) ==
    LET IsBody(el) == el.level = None
    IN  AppendTargets(Len(d), SelectSeq(elements_details, IsBody), <<>>)

\* scope == "all_body_paragraphs": the records of type paragraph.
BodyTargets(d, elements_details) ==
    LET IsBody(el) == el.type = Some("paragraph")
    IN  AppendTargets(Len(d), SelectSeq(elements_details, IsBody), <<>>)

\* _get_target_paragraphs(doc, elements_details, scope): the positions of
\* the paragraphs returned, in the order returned; raised names the
\* exception that left the function, "" when it returned.
_get_target_paragraphs(d, elements_details, scope) ==
    IF scope = None \/ Val(scope) = <<>> THEN NoTargets
    ELSE LET s == Val(scope)
         IN  IF s = S_all_paragraphs THEN AllTargets(d)
             ELSE IF StartsWith(s, S_headings_level_)
             THEN HeadingTargets(d, elements_details, s)
             ELSE IF StartsWith(s, S_paragraph_index_) THEN IndexTargets(d, s)
             ELSE IF s = S_all_body_paragraphs THEN BodyTargets(d, elements_details)
             ELSE NoTargets

----------------------------------------------------------------------------
(* python-docx setters reached by the formatting utilities *)

\* Pt(points) assigned to a length attribute the library validates as
\* unsigned (font size, space before, space after): a negative length is
\* rejected with ValueError or stored as given, depending on the library.
Rejects(points) == points < 0 /\ lib = "ValueError"

\* Font size is kept in half-points (w:sz), spacing in twentieths of a
\* point (w:before, w:after), line spacing in 240ths of a line (w:line).
HalfPoints(points) == 2 * points
Twips(points) == 20 * points
Lines240(multiple) == 240 * multiple

----------------------------------------------------------------------------
(* Low-level formatting utilities *)

\* SetRunFont with "if bold:" for "if bold is not None:": bold = False is
\* taken for an absent bold.
SetRunFont_TruthyBold(run, font_name, size_pt, bold, italic, underline) ==
    LET r1 == IF TruthyStr(font_name) THEN [run EXCEPT !.name = font_name] ELSE run
        r2 == IF TruthyInt(size_pt)
              THEN [r1 EXCEPT !.sz = Some(HalfPoints(Val(size_pt)))] ELSE r1
        r3 == IF bold = Some(TRUE) THEN [r2 EXCEPT !.bold = bold] ELSE r2
        r4 == IF italic # None THEN [r3 EXCEPT !.italic = italic] ELSE r3
        r5 == IF underline # None THEN [r4 EXCEPT !.underline = underline] ELSE r4
    IN  IF TruthyInt(size_pt) /\ Rejects(Val(size_pt))
        THEN [run |-> r1, raised |-> TRUE]
        ELSE [run |-> r5, raised |-> FALSE]

\* The body of the loop of set_paragraph_font_properties on one run.  The
\* assignments are made in order; raised = TRUE when the size assignment
\* raised, after which nothing more was assigned.
SetRunFont(run, font_name, size_pt, bold, italic, underline) ==
    LET r1 == IF TruthyStr(font_name) THEN [run EXCEPT !.name = font_name] ELSE run
        r2 == IF TruthyInt(size_pt)
              THEN [r1 EXCEPT !.sz = Some(HalfPoints(Val(size_pt)))] ELSE r1
        r3 == IF bold # None THEN [r2 EXCEPT !.bold = bold] ELSE r2
        r4 == IF italic # None THEN [r3 EXCEPT !.italic = italic] ELSE r3
        r5 == IF underline # None THEN [r4 EXCEPT !.underline = underline] ELSE r4
    IN  IF TruthyInt(size_pt) /\ Rejects(Val(size_pt))
        THEN [run |-> r1, raised |-> TRUE]
        ELSE [run |-> r5, raised |-> FALSE]

\* set_paragraph_font_properties: every run in order, up to and including
\* the first run whose size assignment raised.
set_paragraph_font_properties(paragraph, font_name, size_pt, bold, italic, underline) ==
    LET runs == paragraph.runs
        each == [i \in 1..Len(runs) |->
                    SetRunFont(runs[i], font_name, size_pt, bold, italic, underline)]
        bad == {i \in 1..Len(runs) : each[i].raised}
        stop == IF bad = {} THEN Len(runs) ELSE Min(bad)
    IN  [para |-> [paragraph EXCEPT !.runs =
                      [i \in 1..Len(runs) |-> IF i <= stop THEN each[i].run ELSE runs[i]]],
         raised |-> bad # {}]

\* set_paragraph_spacing_properties adding the space after to the space
\* the paragraph has, as += for = does.
set_paragraph_spacing_properties_Adds(paragraph, spacing_before_pt, spacing_after_pt, line_spacing_rule) ==
    LET badBefore == spacing_before_pt # None /\ Rejects(Val(spacing_before_pt))
        badAfter == spacing_after_pt # None /\ Rejects(Val(spacing_after_pt))
        had == IF paragraph.space_after = None THEN 0 ELSE Val(paragraph.space_after)
        p1 == IF spacing_before_pt # None /\ ~badBefore
              THEN [paragraph EXCEPT !.space_before = Some(Twips(Val(spacing_before_pt)))]
              ELSE paragraph
        p2 == IF spacing_after_pt # None /\ ~badAfter
              THEN [p1 EXCEPT !.space_after = Some(had + Twips(Val(spacing_after_pt)))]
              ELSE p1
        p3 == IF line_spacing_rule # None
              THEN [p2 EXCEPT !.line_spacing = Some(Lines240(Val(line_spacing_rule)))]
              ELSE p2
    IN  IF badBefore THEN [para |-> paragraph, raised |-> TRUE]
        ELSE IF badAfter THEN [para |-> p1, raised |-> TRUE]
        ELSE [para |-> p3, raised |-> FALSE]

\* set_paragraph_spacing_properties: space before, space after, line
\* spacing, assigned in that order, each only when not None.
set_paragraph_spacing_properties(paragraph, spacing_before_pt, spacing_after_pt, line_spacing_rule) ==
    LET badBefore == spacing_before_pt # None /\ Rejects(Val(spacing_before_pt))
        badAfter == spacing_after_pt # None /\ Rejects(Val(spacing_after_pt))
        p1 == IF spacing_before_pt # None /\ ~badBefore
              THEN [paragraph EXCEPT !.space_before = Some(Twips(Val(spacing_before_pt)))]
              ELSE paragraph
        p2 == IF spacing_after_pt # None /\ ~badAfter
              THEN [p1 EXCEPT !.space_after = Some(Twips(Val(spacing_after_pt)))]
              ELSE p1
        p3 == IF line_spacing_rule # None
              THEN [p2 EXCEPT !.line_spacing = Some(Lines240(Val(line_spacing_rule)))]
              ELSE p2
    IN  IF badBefore THEN [para |-> paragraph, raised |-> TRUE]
        ELSE IF badAfter THEN [para |-> p1, raised |-> TRUE]
        ELSE [para |-> p3, raised |-> FALSE]

\* str.upper() on ASCII letters.
Lower == <<"a", "b", "c", "d", "e", "f", "g", "h", "i", "j", "k", "l", "m",
           "n", "o", "p", "q", "r", "s", "t", "u", "v", "w", "x", "y", "z">>
Upper == <<"A", "B", "C", "D", "E", "F", "G", "H", "I", "J", "K", "L", "M",
           "N", "O", "P", "Q", "R", "S", "T", "U", "V", "W", "X", "Y", "Z">>
UpperChar(c) ==
    IF \E i \in 1..Len(Lower) : Lower[i] = c
    THEN Upper[CHOOSE i \in 1..Len(Lower) : Lower[i] = c]
    ELSE c
ToUpper(s) == [i \in 1..Len(s) |-> UpperChar(s[i])]

\* The members of WD_ALIGN_PARAGRAPH that getattr finds by name.
S_LEFT == <<"L", "E", "F", "T">>
S_CENTER == <<"C", "E", "N", "T", "E", "R">>
S_RIGHT == <<"R", "I", "G", "H", "T">>
S_JUSTIFY == <<"J", "U", "S", "T", "I", "F", "Y">>
S_DISTRIBUTE == <<"D", "I", "S", "T", "R", "I", "B", "U", "T", "E">>
S_JUSTIFY_MED == S_JUSTIFY \o <<"_", "M", "E", "D">>
S_JUSTIFY_HI == S_JUSTIFY \o <<"_", "H", "I">>
S_JUSTIFY_LOW == S_JUSTIFY \o <<"_", "L", "O", "W">>
S_THAI_JUSTIFY == <<"T", "H", "A", "I", "_">> \o S_JUSTIFY
WD_ALIGN_PARAGRAPH ==
    {S_LEFT, S_CENTER, S_RIGHT, S_JUSTIFY, S_DISTRIBUTE,
     S_JUSTIFY_MED, S_JUSTIFY_HI, S_JUSTIFY_LOW, S_THAI_JUSTIFY}

\* set_paragraph_alignment_properties looking the name up as it is given,
\* without alignment.upper().
set_paragraph_alignment_properties_CaseSensitive(paragraph, alignment) ==
    IF alignment # None /\ Val(alignment) # <<>>
       /\ Val(alignment) \in WD_ALIGN_PARAGRAPH
    THEN [paragraph EXCEPT !.alignment = alignment]
    ELSE paragraph

\* set_paragraph_alignment_properties: a falsy alignment and a name that
\* is no member of the enumeration leave the paragraph as it was.
set_paragraph_alignment_properties(paragraph, alignment) ==
    IF alignment # None /\ Val(alignment) # <<>>
       /\ ToUpper(Val(alignment)) \in WD_ALIGN_PARAGRAPH
    THEN [paragraph EXCEPT !.alignment = Some(ToUpper(Val(alignment)))]
    ELSE paragraph

----------------------------------------------------------------------------
(* Action handlers *)

\* What a handler leaves behind: the document and the exception that left
\* the handler ("" when it returned).
Done(d) == [doc |-> d, raised |-> ""]
Raised(d, exc) == [doc |-> d, raised |-> exc]

RECURSIVE FontLoop(_, _, _)
\* for para in target_paras: set_paragraph_font_properties(para, ...)
FontLoop(d, targets, a) ==
    IF targets = <<>> THEN Done(d)
    ELSE LET i == Head(targets) + 1
             r == set_paragraph_font_properties(
                      d[i], a.font_name, a.size, a.bold, a.italic, a.underline)
             d1 == [d EXCEPT ![i] = r.para]
         IN  IF r.raised THEN Raised(d1, "ValueError")
             ELSE FontLoop(d1, Tail(targets), a)

\* apply_set_font_action(doc, elements_details, action)
apply_set_font_action(d, elements_details, action) ==
    LET t == _get_target_paragraphs(d, elements_details, action.scope)
    IN  IF t.raised # "" THEN Raised(d, t.raised)
        ELSE IF t.paras = <<>> THEN Done(d)
        ELSE FontLoop(d, t.paras, action)

\* f"{level}": the text an f-string gives the level field.  An absent
\* level is None and prints as "None"; a string prints as itself.
FormatLevel(level) ==
    IF level.kind = "none" THEN S_None
    ELSE IF level.kind = "int" THEN IntToStr(level.int)
    ELSE level.str

RECURSIVE HeadingLoop_FirstOnly(_, _, _)
\* HeadingLoop leaving the loop after the first paragraph, as a return
\* indented into the loop does.
HeadingLoop_FirstOnly(d, targets, a) ==
    IF targets = <<>> THEN Done(d)
    ELSE LET i == Head(targets) + 1
             f == set_paragraph_font_properties(
                      d[i], a.font_name, a.size, a.bold, a.italic, a.underline)
             s == IF a.spacing_after # None
                  THEN set_paragraph_spacing_properties(f.para, None, a.spacing_after, None)
                  ELSE [para |-> f.para, raised |-> FALSE]
         IN  IF f.raised THEN Raised([d EXCEPT ![i] = f.para], "ValueError")
             ELSE IF s.raised THEN Raised([d EXCEPT ![i] = s.para], "ValueError")
             ELSE Done([d EXCEPT ![i] = s.para])

RECURSIVE HeadingLoop_Restyles(_, _, _)
\* HeadingLoop giving every paragraph it formats the style Normal, as a
\* para.style = 'Normal' before the direct formatting does.
HeadingLoop_Restyles(d, targets, a) ==
    IF targets = <<>> THEN Done(d)
    ELSE LET i == Head(targets) + 1
             f == set_paragraph_font_properties(
                      [d[i] EXCEPT !.style = S_Normal],
                      a.font_name, a.size, a.bold, a.italic, a.underline)
             s == IF a.spacing_after # None
                  THEN set_paragraph_spacing_properties(f.para, None, a.spacing_after, None)
                  ELSE [para |-> f.para, raised |-> FALSE]
         IN  IF f.raised THEN Raised([d EXCEPT ![i] = f.para], "ValueError")
             ELSE IF s.raised THEN Raised([d EXCEPT ![i] = s.para], "ValueError")
             ELSE HeadingLoop_Restyles([d EXCEPT ![i] = s.para], Tail(targets), a)

RECURSIVE HeadingLoop(_, _, _)
\* for para in target_paras: font properties, then space after when given.
HeadingLoop(d, targets, a) ==
    IF targets = <<>> THEN Done(d)
    ELSE LET i == Head(targets) + 1
             f == set_paragraph_font_properties(
                      d[i], a.font_name, a.size, a.bold, a.italic, a.underline)
             s == IF a.spacing_after # None
                  THEN set_paragraph_spacing_properties(f.para, None, a.spacing_after, None)
                  ELSE [para |-> f.para, raised |-> FALSE]
         IN  IF f.raised THEN Raised([d EXCEPT ![i] = f.para], "ValueError")
             ELSE IF s.raised THEN Raised([d EXCEPT ![i] = s.para], "ValueError")
             ELSE HeadingLoop([d EXCEPT ![i] = s.para], Tail(targets), a)

\* apply_set_heading_style_action(doc, elements_details, action)
apply_set_heading_style_action(d, elements_details, action) ==
    LET scope == Some(S_headings_level_ \o FormatLevel(action.level))
        t == _get_target_paragraphs(d, elements_details, scope)
    IN  IF t.raised # "" THEN Raised(d, t.raised)
        ELSE IF t.paras = <<>> THEN Done(d)
        ELSE HeadingLoop(d, t.paras, action)

RECURSIVE SpacingLoop(_, _, _)
\* for para in target_paras: set_paragraph_spacing_properties(para, ...)
SpacingLoop(d, targets, a) ==
    IF targets = <<>> THEN Done(d)
    ELSE LET i == Head(targets) + 1
             r == set_paragraph_spacing_properties(
                      d[i], a.spacing_before, a.spacing_after, a.line_spacing)
             d1 == [d EXCEPT ![i] = r.para]
         IN  IF r.raised THEN Raised(d1, "ValueError")
             ELSE SpacingLoop(d1, Tail(targets), a)

\* apply_set_paragraph_spacing_action(doc, elements_details, action)
apply_set_paragraph_spacing_action(d, elements_details, action) ==
    LET t == _get_target_paragraphs(d, elements_details, action.scope)
    IN  IF t.raised # "" THEN Raised(d, t.raised)
        ELSE IF t.paras = <<>> THEN Done(d)
        ELSE SpacingLoop(d, t.paras, action)

RECURSIVE AlignmentLoop(_, _, _)
\* for para in target_paras: set_paragraph_alignment_properties(para, alignment)
AlignmentLoop(d, targets, a) ==
    IF targets = <<>> THEN Done(d)
    ELSE LET i == Head(targets) + 1
         IN  AlignmentLoop(
                 [d EXCEPT ![i] = set_paragraph_alignment_properties(d[i], a.alignment)],
                 Tail(targets), a)

\* apply_set_alignment_action(doc, elements_details, action)
apply_set_alignment_action(d, elements_details, action) ==
    LET t == _get_target_paragraphs(d, elements_details, action.scope)
    IN  IF t.raised # "" THEN Raised(d, t.raised)
        ELSE IF t.paras = <<>> THEN Done(d)
        ELSE AlignmentLoop(d, t.paras, action)

----------------------------------------------------------------------------
(* find_and_replace *)

\* str.lower() on ASCII letters.
LowerChar(c) ==
    IF \E i \in 1..Len(Upper) : Upper[i] = c
    THEN Lower[CHOOSE i \in 1..Len(Upper) : Upper[i] = c]
    ELSE c
ToLower(s) == [i \in 1..Len(s) |-> LowerChar(s[i])]

IsLetter(c) == \E i \in 1..Len(Lower) : Lower[i] = c \/ Upper[i] = c

\* re.compile(re.escape(find_text), re.IGNORECASE) matches at position i
\* of text: the characters of find_text, case ignored.
MatchAt(text, find_text, i) ==
    /\ i + Len(find_text) - 1 <= Len(text)
    /\ ToLower(SubSeq(text, i, i + Len(find_text) - 1)) = ToLower(find_text)

\* find_text.lower() in run.text.lower()
Contains(text, find_text) ==
    \E i \in 1..(Len(text) + 1) : MatchAt(text, find_text, i)

\* The character a backslash and one of the letters a b f n r t v stand
\* for in a replacement template, as one element of a text.
ControlChar(c) ==
    CASE c = "n" -> "LF" [] c = "t" -> "TAB" [] c = "r" -> "CR"
      [] c = "a" -> "BEL" [] c = "b" -> "BS" [] c = "f" -> "FF"
      [] c = "v" -> "VT"

RECURSIVE ExpandTemplate(_, _)
\* What pattern.subn puts in place of one match m when its first argument
\* is the string t: re reads t as a template.  A backslash followed by
\* another backslash is one backslash; followed by one of a b f n r t v,
\* a control character; followed by g<0>, the match; followed by 0, the
\* character NUL; followed by another digit, a reference to a group the
\* pattern does not have, which is re.error, as are a backslash followed
\* by any other letter and a backslash that ends t; followed by anything
\* else, itself and that character.  (Three octal digits after a
\* backslash, and other spellings of group 0, are left out.)
ExpandTemplate(t, m) ==
    IF t = <<>> THEN [ok |-> TRUE, text |-> <<>>]
    ELSE IF t[1] # "\\"
    THEN LET r == ExpandTemplate(Tail(t), m)
         IN  [ok |-> r.ok, text |-> <<t[1]>> \o r.text]
    ELSE IF Len(t) = 1 THEN [ok |-> FALSE, text |-> <<>>]
    ELSE LET c == t[2]
             After(k) == ExpandTemplate(SubSeq(t, k, Len(t)), m)
         IN  IF c = "\\"
             THEN [ok |-> After(3).ok, text |-> <<"\\">> \o After(3).text]
             ELSE IF c \in {"a", "b", "f", "n", "r", "t", "v"}
             THEN [ok |-> After(3).ok, text |-> <<ControlChar(c)>> \o After(3).text]
             ELSE IF c = "g"
             THEN IF Len(t) >= 5 /\ SubSeq(t, 3, 5) = <<"<", "0", ">">>
                  THEN [ok |-> After(6).ok, text |-> m \o After(6).text]
                  ELSE [ok |-> FALSE, text |-> <<>>]
             ELSE IF c = "0"
             THEN [ok |-> After(3).ok, text |-> <<"NUL">> \o After(3).text]
             ELSE IF IsDigit(c) \/ IsLetter(c) THEN [ok |-> FALSE, text |-> <<>>]
             ELSE [ok |-> After(3).ok, text |-> <<"\\", c>> \o After(3).text]

RECURSIVE Subn(_, _, _)
\* pattern.subn(replace_with, text): the matches taken from the left, none
\* overlapping another, each replaced; n counts them.
Subn(replace_with, text, find_text) ==
    IF text = <<>> THEN [text |-> <<>>, n |-> 0]
    ELSE IF MatchAt(text, find_text, 1)
    THEN LET r == Subn(replace_with,
                       SubSeq(text, Len(find_text) + 1, Len(text)), find_text)
         IN  [text |-> ExpandTemplate(replace_with, SubSeq(text, 1, Len(find_text))).text
                          \o r.text,
              n |-> r.n + 1]
    ELSE LET r == Subn(replace_with, Tail(text), find_text)
         IN  [text |-> <<Head(text)>> \o r.text, n |-> r.n]

\* The find field of an action: absent, a string, or a value that is no
\* string (a number).
FindNone == [kind |-> "none", str |-> <<>>, int |-> 0]
FindStr(s) == [kind |-> "str", str |-> s, int |-> 0]
FindInt(n) == [kind |-> "int", str |-> <<>>, int |-> n]

\* not find_text
FalsyFind(f) ==
    \/ f.kind = "none"
    \/ f.kind = "str" /\ f.str = <<>>
    \/ f.kind = "int" /\ f.int = 0

\* The body of the loops on one run: the text is replaced when the run
\* holds find_text.
ReplaceInRun(run, find_text, replace_with) ==
    IF Contains(run.text, find_text)
    THEN [run EXCEPT !.text = Subn(replace_with, run.text, find_text).text]
    ELSE run

\* The replacements made in the runs of the document d.
ReplacedCount(d, find_text, replace_with) ==
    LET RECURSIVE Sum(_, _)
        Sum(p, r) ==
            IF p > Len(d) THEN 0
            ELSE IF r > Len(d[p].runs) THEN Sum(p + 1, 1)
            ELSE Sum(p, r + 1) +
                 (IF Contains(d[p].runs[r].text, find_text)
                  THEN Subn(replace_with, d[p].runs[r].text, find_text).n ELSE 0)
    IN  Sum(1, 1)

\* apply_find_and_replace_action leaving out of the document the
\* paragraphs that hold no text after the replacement.
apply_find_and_replace_action_DropsEmpty(d, action) ==
    LET f == action.find
        w == action.replace_with
        HasText(para) == \E r \in 1..Len(para.runs) : para.runs[r].text # <<>>
    IN  IF FalsyFind(f) \/ w = None \/ f.kind = "int" \/ ~ExpandTemplate(Val(w), <<>>).ok
        THEN [doc |-> d, raised |-> "", count |-> 0]
        ELSE [doc |-> SelectSeq([p \in 1..Len(d) |->
                         [d[p] EXCEPT !.runs =
                             [r \in 1..Len(d[p].runs) |->
                                 ReplaceInRun(d[p].runs[r], f.str, Val(w))]]], HasText),
              raised |-> "",
              count |-> ReplacedCount(d, f.str, Val(w))]

\* apply_find_and_replace_action(doc, action).  The loops go run by run
\* over doc.paragraphs.  find_text.lower() raises AttributeError on the
\* first run when find_text is no string; pattern.subn raises re.error on
\* the first run that holds find_text when replace_with is no well-formed
\* template, so that no run was changed before.  count is replaced_count.
apply_find_and_replace_action(d, action) ==
    LET f == action.find
        w == action.replace_with
        anyRun == \E p \in 1..Len(d) : d[p].runs # <<>>
        anyMatch == \E p \in 1..Len(d) : \E r \in 1..Len(d[p].runs) :
                        Contains(d[p].runs[r].text, f.str)
    IN  IF FalsyFind(f) \/ w = None THEN [doc |-> d, raised |-> "", count |-> 0]
        ELSE IF f.kind = "int"
        THEN [doc |-> d, raised |-> IF anyRun THEN "AttributeError" ELSE "", count |-> 0]
        ELSE IF anyMatch /\ ~ExpandTemplate(Val(w), <<>>).ok
        THEN [doc |-> d, raised |-> "error", count |-> 0]
        ELSE [doc |-> [p \in 1..Len(d) |->
                         [d[p] EXCEPT !.runs =
                             [r \in 1..Len(d[p].runs) |->
                                 ReplaceInRun(d[p].runs[r], f.str, Val(w))]]],
              raised |-> "",
              count |-> ReplacedCount(d, f.str, Val(w))]

----------------------------------------------------------------------------
(* fix_font_inconsistencies *)

\* FixRunFont writing the font name whenever a target name is given,
\* without the test run.font.name != target_font_name.
FixRunFont_AlwaysWrites(run, target_font_name, target_font_size_pt) ==
    LET writeName == TruthyStr(target_font_name)
        r1 == IF writeName THEN [run EXCEPT !.name = target_font_name] ELSE run
        writeSize ==
            /\ TruthyInt(target_font_size_pt)
            /\ \/ run.sz = None
               \/ Val(run.sz) = 0
               \/ Val(run.sz) # HalfPoints(Val(target_font_size_pt))
        r2 == IF writeSize
              THEN [r1 EXCEPT !.sz = Some(HalfPoints(Val(target_font_size_pt)))]
              ELSE r1
    IN  IF writeSize /\ Rejects(Val(target_font_size_pt))
        THEN [run |-> r1, raised |-> TRUE, changed |-> FALSE]
        ELSE [run |-> r2, raised |-> FALSE, changed |-> writeName \/ writeSize]

\* The body of the loop on runs: the name is written when a target name
\* is given and the run's name is another, the size when a target size is
\* given and the run has no size or another.  changed is
\* applied_change_to_run where the count is raised; raised = TRUE when
\* the size assignment raised.
FixRunFont(run, target_font_name, target_font_size_pt) ==
    LET writeName == TruthyStr(target_font_name) /\ run.name # target_font_name
        r1 == IF writeName THEN [run EXCEPT !.name = target_font_name] ELSE run
        writeSize ==
            /\ TruthyInt(target_font_size_pt)
            /\ \/ run.sz = None
               \/ Val(run.sz) = 0
               \/ Val(run.sz) # HalfPoints(Val(target_font_size_pt))
        r2 == IF writeSize
              THEN [r1 EXCEPT !.sz = Some(HalfPoints(Val(target_font_size_pt)))]
              ELSE r1
    IN  IF writeSize /\ Rejects(Val(target_font_size_pt))
        THEN [run |-> r1, raised |-> TRUE, changed |-> FALSE]
        ELSE [run |-> r2, raised |-> FALSE, changed |-> writeName \/ writeSize]

\* for run in paragraph.runs: every run in order, up to and including the
\* first whose size assignment raised; count is the number of runs
\* counted as changed.
FixParagraphRuns(paragraph, target_font_name, target_font_size_pt) ==
    LET runs == paragraph.runs
        each == [i \in 1..Len(runs) |->
                    FixRunFont(runs[i], target_font_name, target_font_size_pt)]
        bad == {i \in 1..Len(runs) : each[i].raised}
        stop == IF bad = {} THEN Len(runs) ELSE Min(bad)
    IN  [para |-> [paragraph EXCEPT !.runs =
                      [i \in 1..Len(runs) |-> IF i <= stop THEN each[i].run ELSE runs[i]]],
         raised |-> bad # {},
         count |-> Cardinality({i \in 1..stop : each[i].changed})]

RECURSIVE FixLoop(_, _, _, _)
\* for paragraph in target_paras: ...
FixLoop(d, targets, a, changed_elements_count) ==
    IF targets = <<>>
    THEN [doc |-> d, raised |-> "", count |-> changed_elements_count]
    ELSE LET i == Head(targets) + 1
             r == FixParagraphRuns(d[i], a.target_font_name, a.target_font_size)
             d1 == [d EXCEPT ![i] = r.para]
         IN  IF r.raised
             THEN [doc |-> d1, raised |-> "ValueError",
                   count |-> changed_elements_count + r.count]
             ELSE FixLoop(d1, Tail(targets), a, changed_elements_count + r.count)

\* apply_fix_font_inconsistencies_action(doc, elements_details, action).
\* An action without scope gets the scope "all_paragraphs".
apply_fix_font_inconsistencies_action(d, elements_details, action) ==
    IF ~TruthyStr(action.target_font_name) /\ ~TruthyInt(action.target_font_size)
    THEN [doc |-> d, raised |-> "", count |-> 0]
    ELSE LET scope == IF action.scope = None THEN Some(S_all_paragraphs)
                      ELSE action.scope
             t == _get_target_paragraphs(d, elements_details, scope)
         IN  IF t.raised # "" THEN [doc |-> d, raised |-> t.raised, count |-> 0]
             ELSE IF t.paras = <<>> THEN [doc |-> d, raised |-> "", count |-> 0]
             ELSE FixLoop(d, t.paras, action, 0)

----------------------------------------------------------------------------
(* Table utilities *)

\* A cell value of the data handed to add_table: a string or a number;
\* str() gives its text.
StrValue(s) == [kind |-> "str", str |-> s, int |-> 0]
IntValue(n) == [kind |-> "int", str |-> <<>>, int |-> n]
ToStr(v) == IF v.kind = "str" THEN v.str ELSE IntToStr(v.int)

\* A row of the data: a list of cell values, or a value that is no list
\* and has no len().
DataRow(items) == [kind |-> "list", items |-> items]
NotARow == [kind |-> "int", items |-> <<>>]

\* A run and a paragraph as the library makes them for a text: no font
\* attribute, no alignment.
TextRun(text) ==
    [text |-> text, name |-> None, sz |-> None,
     bold |-> None, italic |-> None, underline |-> None]
CellParagraph(runs) == [runs |-> runs, alignment |-> None]

\* The cell of a new table: one paragraph without runs, no shading.
EmptyCell == [paras |-> <<CellParagraph(<<>>)>>, shading |-> <<>>]

\* cell.text = text: the content of the cell is one paragraph of one run.
SetCellText(cell, text) == [cell EXCEPT !.paras = <<CellParagraph(<<TextRun(text)>>)>>]

\* cell.text: the texts of the runs of the paragraphs, the paragraphs
\* joined by a line feed.
RECURSIVE JoinRuns(_)
JoinRuns(runs) == IF runs = <<>> THEN <<>> ELSE Head(runs).text \o JoinRuns(Tail(runs))
RECURSIVE JoinParas(_)
JoinParas(paras) ==
    IF Len(paras) = 1 THEN JoinRuns(paras[1].runs)
    ELSE JoinRuns(paras[1].runs) \o <<"LF">> \o JoinParas(Tail(paras))
CellText(cell) == JoinParas(cell.paras)

\* The coordinates of a grid of rows x cols, 0-based as in the code.
Grid(rows, cols) == (0..(rows - 1)) \X (0..(cols - 1))

\* doc.add_table(rows=rows, cols=cols): empty cells, every coordinate its
\* own cell, the default style.
NewTable(rows, cols) ==
    [rows |-> rows, cols |-> cols, style |-> None,
     cells |-> [rc \in Grid(rows, cols) |-> EmptyCell],
     at |-> [rc \in Grid(rows, cols) |-> rc]]

\* table.cell(row, col): the cell the coordinate stands for, the top-left
\* cell of the span for a coordinate merged over.
TableCell(table, row, col) == table.cells[table.at[<<row, col>>]]

\* The table styles of the default template that the model names.
TableStyles == {"Table Grid", "Light Shading Accent 1"}

\* table.style = style under try/except: an unknown name leaves the style.
ApplyTableStyle(table, style) ==
    IF TruthyStr(style) /\ Val(style) \in TableStyles
    THEN [table EXCEPT !.style = style] ELSE table

\* Populate leaving row 0 of the table empty, as range(1, rows) does.
Populate_SkipFirstRow(table, data) ==
    LET rows == Val(data)
        last == Min({table.rows, Len(rows)})
        bad == {i \in 0..(last - 1) : rows[i + 1].kind # "list"}
        stop == IF bad = {} THEN table.rows ELSE Min(bad)
        Filled(i, j) ==
            /\ i >= 1 /\ i < stop /\ i < Len(rows)
            /\ j < Len(rows[i + 1].items)
    IN  [table |-> [table EXCEPT !.cells =
                       [rc \in DOMAIN table.cells |->
                           IF Filled(rc[1], rc[2])
                           THEN SetCellText(table.cells[rc],
                                            ToStr(rows[rc[1] + 1].items[rc[2] + 1]))
                           ELSE table.cells[rc]]],
         raised |-> bad # {}]

\* The loops that populate the table: for i in range(rows), when data has
\* a row i, for j in range(cols), when that row has a column j, the cell
\* gets str(row_data[j]).  len(row_data) raises TypeError on a row that is
\* no list, after the rows before it were written.
Populate(table, data) ==
    LET rows == Val(data)
        last == Min({table.rows, Len(rows)})
        bad == {i \in 0..(last - 1) : rows[i + 1].kind # "list"}
        stop == IF bad = {} THEN table.rows ELSE Min(bad)
        Filled(i, j) ==
            /\ i < stop /\ i < Len(rows)
            /\ j < Len(rows[i + 1].items)
    IN  [table |-> [table EXCEPT !.cells =
                       [rc \in DOMAIN table.cells |->
                           IF Filled(rc[1], rc[2])
                           THEN SetCellText(table.cells[rc],
                                            ToStr(rows[rc[1] + 1].items[rc[2] + 1]))
                           ELSE table.cells[rc]]],
         raised |-> bad # {}]

\* add_table without the test of rows and cols.
add_table_NoSizeCheck(ts, doc_ok, rows, cols, data, style) ==
    IF ~doc_ok THEN [tables |-> ts, ok |-> FALSE, n |-> 0]
    ELSE LET styled == ApplyTableStyle(NewTable(rows, cols), style)
             filled == IF data # None /\ Val(data) # <<>>
                       THEN Populate(styled, data)
                       ELSE [table |-> styled, raised |-> FALSE]
         IN  [tables |-> Append(ts, filled.table),
              ok |-> ~filled.raised,
              n |-> IF filled.raised THEN 0 ELSE Len(ts) + 1]

\* add_table(doc, rows, cols, data, style) on a document whose tables are
\* ts.  doc_ok tells whether doc is a Document.  ok = FALSE is the return
\* of None; n is the position in doc.tables of the table returned.  The
\* table is in the document from doc.add_table on, also when populating
\* it raises and None is returned.
add_table(ts, doc_ok, rows, cols, data, style) ==
    IF ~doc_ok THEN [tables |-> ts, ok |-> FALSE, n |-> 0]
    ELSE IF ~(rows > 0 /\ cols > 0) THEN [tables |-> ts, ok |-> FALSE, n |-> 0]
    ELSE LET styled == ApplyTableStyle(NewTable(rows, cols), style)
             filled == IF data # None /\ Val(data) # <<>>
                       THEN Populate(styled, data)
                       ELSE [table |-> styled, raised |-> FALSE]
         IN  [tables |-> Append(ts, filled.table),
              ok |-> ~filled.raised,
              n |-> IF filled.raised THEN 0 ELSE Len(ts) + 1]


\* _set_cell_shading: one more w:shd element appended to the cell
\* properties.
SetCellShading(cell, hex_color) == [cell EXCEPT !.shading = Append(@, hex_color)]

\* paragraph.text = text: the runs of the paragraph give way to one run of
\* the text; the paragraph properties stay.
SetParagraphText(paragraph, text) == [paragraph EXCEPT !.runs = <<TextRun(text)>>]

\* any([font_name, font_size, bold, italic, underline]).
AnyFont(f) ==
    \/ TruthyStr(f.font_name) \/ TruthyInt(f.font_size)
    \/ f.bold = Some(TRUE) \/ f.italic = Some(TRUE) \/ f.underline = Some(TRUE)

\* The test of format_table_cell that sends a coordinate back.
CellOutOfBounds(table, row, col) ==
    row >= table.rows \/ col >= table.cols \/ row < 0 \/ col < 0

\* format_table_cell taking the cell of the grid at (row, col) for the
\* cell table.cell(row, col) gives, as if no coordinate were merged over.
format_table_cell_NoAlias(table, row, col, f) ==
    IF CellOutOfBounds(table, row, col) THEN [table |-> table, ok |-> FALSE]
    ELSE LET at == <<row, col>>
             cell == table.cells[at]
             p1 == IF f.text # None THEN SetParagraphText(cell.paras[1], Val(f.text))
                   ELSE cell.paras[1]
             font == IF AnyFont(f)
                     THEN set_paragraph_font_properties(p1, f.font_name, f.font_size,
                                                        f.bold, f.italic, f.underline)
                     ELSE [para |-> p1, raised |-> FALSE]
             p2 == IF font.raised THEN font.para
                   ELSE IF f.alignment # None /\ Val(f.alignment) # <<>>
                   THEN set_paragraph_alignment_properties(font.para, f.alignment)
                   ELSE font.para
             c1 == [cell EXCEPT !.paras[1] = p2]
             c2 == IF ~font.raised /\ TruthyStr(f.shading)
                   THEN SetCellShading(c1, Val(f.shading)) ELSE c1
         IN  [table |-> [table EXCEPT !.cells[at] = c2], ok |-> ~font.raised]

\* format_table_cell without the test of the coordinates against the
\* table: a coordinate outside the table is taken modulo its size.
format_table_cell_Unchecked(table, row, col, f) ==
    LET at == table.at[<<row % table.rows, col % table.cols>>]
        cell == table.cells[at]
        p1 == IF f.text # None THEN SetParagraphText(cell.paras[1], Val(f.text))
              ELSE cell.paras[1]
        font == IF AnyFont(f)
                THEN set_paragraph_font_properties(p1, f.font_name, f.font_size,
                                                   f.bold, f.italic, f.underline)
                ELSE [para |-> p1, raised |-> FALSE]
        p2 == IF font.raised THEN font.para
              ELSE IF f.alignment # None /\ Val(f.alignment) # <<>>
              THEN set_paragraph_alignment_properties(font.para, f.alignment)
              ELSE font.para
        c1 == [cell EXCEPT !.paras[1] = p2]
        c2 == IF ~font.raised /\ TruthyStr(f.shading)
              THEN SetCellShading(c1, Val(f.shading)) ELSE c1
    IN  [table |-> [table EXCEPT !.cells[at] = c2], ok |-> ~font.raised]

\* format_table_cell(table, row, col, text, ...), f the optional
\* arguments.  The text, the font, the alignment and the shading are
\* applied in that order to the first paragraph of the cell; an exception
\* of the font assignment ends the call with False after what was done.
format_table_cell(table, row, col, f) ==
    IF CellOutOfBounds(table, row, col) THEN [table |-> table, ok |-> FALSE]
    ELSE LET at == table.at[<<row, col>>]
             cell == table.cells[at]
             p1 == IF f.text # None THEN SetParagraphText(cell.paras[1], Val(f.text))
                   ELSE cell.paras[1]
             font == IF AnyFont(f)
                     THEN set_paragraph_font_properties(p1, f.font_name, f.font_size,
                                                        f.bold, f.italic, f.underline)
                     ELSE [para |-> p1, raised |-> FALSE]
             p2 == IF font.raised THEN font.para
                   ELSE IF f.alignment # None /\ Val(f.alignment) # <<>>
                   THEN set_paragraph_alignment_properties(font.para, f.alignment)
                   ELSE font.para
             c1 == [cell EXCEPT !.paras[1] = p2]
             c2 == IF ~font.raised /\ TruthyStr(f.shading)
                   THEN SetCellShading(c1, Val(f.shading)) ELSE c1
         IN  [table |-> [table EXCEPT !.cells[at] = c2], ok |-> ~font.raised]

\* The test of merge_table_cells that lets a region through.
RegionInBounds(table, start_row, start_col, end_row, end_col) ==
    /\ 0 <= start_row /\ start_row <= end_row /\ end_row < table.rows
    /\ 0 <= start_col /\ start_col <= end_col /\ end_col < table.cols

\* _Cell.merge moving the content of a cell into the top-left cell: an
\* empty cell gives nothing; otherwise the top-left cell loses a last
\* paragraph without runs and gets the paragraphs of the cell.
IsEmptyCell(cell) == Len(cell.paras) = 1 /\ cell.paras[1].runs = <<>>
RemoveTrailingEmptyP(paras) ==
    IF paras # <<>> /\ paras[Len(paras)].runs = <<>>
    THEN SubSeq(paras, 1, Len(paras) - 1) ELSE paras
MoveContentTo(top, cell) ==
    IF IsEmptyCell(cell) THEN top
    ELSE [top EXCEPT !.paras = RemoveTrailingEmptyP(@) \o cell.paras]

\* The cells of a region after the top-left one, row by row, as the merge
\* swallows them.
RegionAfterFirst(start_row, start_col, end_row, end_col) ==
    LET width == end_col - start_col + 1
        n == (end_row - start_row + 1) * width
    IN  [k \in 1..(n - 1) |-> <<start_row + (k \div width), start_col + (k % width)>>]
RECURSIVE Swallow(_, _, _)
Swallow(top, cells, region) ==
    IF region = <<>> THEN top
    ELSE Swallow(MoveContentTo(top, cells[Head(region)]), cells, Tail(region))

\* merge_table_cells(table, start_row, start_col, end_row, end_col) on a
\* table none of whose cells is merged yet: a region outside the table or
\* with its corners in the wrong order gives False; otherwise every
\* coordinate of the region stands for the top-left cell, which holds the
\* content of the region.
merge_table_cells(table, start_row, start_col, end_row, end_col) ==
    IF ~RegionInBounds(table, start_row, start_col, end_row, end_col)
    THEN [table |-> table, ok |-> FALSE]
    ELSE LET first == <<start_row, start_col>>
             region == RegionAfterFirst(start_row, start_col, end_row, end_col)
             inRegion == {first} \cup {region[k] : k \in 1..Len(region)}
             top == Swallow(table.cells[first], table.cells, region)
         IN  [table |-> [table EXCEPT
                 !.cells = [rc \in DOMAIN table.cells |->
                               IF rc = first THEN top
                               ELSE IF rc \in inRegion THEN EmptyCell
                               ELSE table.cells[rc]],
                 !.at = [rc \in DOMAIN table.at |->
                               IF rc \in inRegion THEN first ELSE table.at[rc]]],
              ok |-> TRUE]

----------------------------------------------------------------------------
(* Documents *)

Run(text, name, sz, bold, italic, underline) ==
    [text |-> text, name |-> name, sz |-> sz,
     bold |-> bold, italic |-> italic, underline |-> underline]

\* A run that inherits everything from its style, and a run with every
\* font attribute set directly (14 pt, bold, underlined).
RunPlain == Run(<<"a", "A", "a", "b">>, None, None, None, None, None)
RunStyled == Run(<<"c">>, Some("Arial"), Some(28), Some(TRUE), Some(FALSE), Some(TRUE))

Paragraph(style, runs, alignment, space_after) ==
    [style |-> style, runs |-> runs, alignment |-> alignment,
     space_before |-> None, space_after |-> space_after, line_spacing |-> None]

\* The paragraphs documents are made of: a title, level 1 and level 2
\* headings, a Heading style with no number, body paragraphs with and
\* without runs.
Paragraphs ==
    { Paragraph(S_Title, <<RunPlain>>, None, None),
      Paragraph(S_Heading \o <<" ", "1">>, <<RunStyled>>, None, None),
      Paragraph(S_Heading \o <<" ", "1">>, <<RunPlain, RunStyled>>, Some(S_LEFT), None),
      Paragraph(S_Heading \o <<" ", "2">>, <<RunPlain>>, None, None),
      Paragraph(S_Heading \o <<" ", "x">>, <<RunStyled>>, None, None),
      Paragraph(S_Normal, <<RunStyled, RunPlain>>, None, None),
      Paragraph(S_Normal, <<>>, Some(S_CENTER), Some(120)) }

\* load_document: a document of at most MaxParas paragraphs.  Every
\* paragraph is an object of its own: id tells the paragraphs apart and
\* is the position the paragraph was loaded at.
Documents ==
    UNION { {[i \in 1..n |-> [id |-> i - 1] @@ f[i]] : f \in [1..n -> Paragraphs]} :
            n \in 0..MaxParas }

\* Style names a document can give its paragraphs, built-in and custom:
\* Title and Heading with and without what follows, in other spellings,
\* and names that are neither.
StyleStems ==
    { S_Heading, S_Heading \o <<" ">>, S_Heading \o <<"s", " ">>,
      S_Heading \o <<" ", "C", "u", "s", "t", "o", "m", " ">>,
      <<"h">> \o Tail(S_Heading) \o <<" ">>,
      <<"S", "u", "b">> \o S_Heading \o <<" ">>,
      S_Title, S_Title \o <<" ">>, S_Normal, S_Normal \o <<" ">>,
      <<"L", "i", "s", "t", " ">> }
StyleEnds ==
    { <<>>, <<"0">>, <<"1">>, <<"2">>, <<"1", "2">>, <<"-", "1">>, <<"+", "2">>,
      <<"1", "_", "0">>, <<"x">>, <<"1", "x">>, <<"1", " ", "C", "h", "a", "r">>,
      <<"1", " ", "2">>, <<" ", "3">> }
StyleNames == {stem \o end : stem \in StyleStems, end \in StyleEnds} \ {<<>>}

\* Documents of one paragraph of each of these styles.
StyledDocuments ==
    {<<[id |-> 0] @@ Paragraph(name, <<RunPlain>>, None, None)>> : name \in StyleNames}

----------------------------------------------------------------------------
(* Inputs of the calls *)

\* An analysis record as a caller may hand it over.
Element(index, type, level) ==
    [paragraph_index |-> index, text |-> <<>>, style_name |-> <<>>,
     alignment |-> None, runs |-> <<>>, type |-> type, level |-> level]

Reverse(s) == [i \in 1..Len(s) |-> s[Len(s) + 1 - i]]

\* The analysis of the current document.
Fresh(d) == get_document_analysis(d)

\* Lists that are not the analysis of the current document: the analysis
\* of a document that had one more paragraph, records without a
\* paragraph_index, records with a negative paragraph_index, the records
\* in reverse order, every record twice.
Stale(d) ==
    { Fresh(d) \o <<Element(Some(Len(d)), Some("heading"), Some(1))>>,
      Fresh(d) \o <<Element(Some(Len(d)), Some("paragraph"), None)>>,
      <<Element(None, Some("heading"), Some(1))>>,
      <<Element(None, Some("paragraph"), None)>>,
      <<Element(Some(-1), Some("heading"), Some(1)),
        Element(Some(-1), Some("paragraph"), None)>>,
      <<Element(Some(0 - Len(d) - 1), Some("paragraph"), None)>>,
      Reverse(Fresh(d)),
      Fresh(d) \o Fresh(d) }

\* What follows the prefix of a prefixed scope: the integers from -1 to
\* the length of the longest document, and texts that are no integer or
\* more than an integer.
Suffixes ==
    {IntToStr(n) : n \in -1..MaxParas} \cup {IntToStr(10)}
    \cup { <<>>, <<"x">>, <<"1", "x">>, <<"x", "_", "1">>, <<"0", "_", "1">>, <<" ", "1">> }

\* The scope strings of the calls; None is an absent scope.
Scopes ==
    {None, Some(<<>>), Some(S_all_paragraphs), Some(S_all_body_paragraphs)}
    \cup {Some(S_headings_level_ \o x) : x \in Suffixes}
    \cup {Some(S_paragraph_index_ \o x) : x \in Suffixes}
    \cup { Some(<<"a", "l", "l">>),
           Some(S_all_paragraphs \o <<"_", "0">>),
           Some(<<"A">> \o Tail(S_all_paragraphs)) }

Flags == {None, Some(TRUE), Some(FALSE)}
FontNames == {None, Some(""), Some("Impact")}
Sizes == {None, Some(0), Some(20), Some(-5)}
Spacings == {None, Some(0), Some(18), Some(-3)}

Font(font_name, size, bold, italic, underline) ==
    [font_name |-> font_name, size |-> size, bold |-> bold,
     italic |-> italic, underline |-> underline]

\* The font fields of set_font and set_heading_style: every combination
\* of name, size and bold without italic and underline, and some with.
FontFields ==
    {Font(n, z, b, None, None) : n \in FontNames, z \in Sizes, b \in Flags}
    \cup { Font(None, None, None, Some(TRUE), None),
           Font(None, None, None, None, Some(FALSE)),
           Font(None, None, Some(TRUE), Some(FALSE), Some(TRUE)),
           Font(Some("Impact"), Some(20), Some(FALSE), Some(TRUE), Some(FALSE)),
           Font(Some("Impact"), Some(-5), Some(TRUE), Some(TRUE), None) }

\* A few of them, for the calls that vary the scope and the analysis.
FontFieldsFew ==
    { Font(None, None, Some(TRUE), None, None),
      Font(Some("Impact"), Some(20), Some(FALSE), Some(TRUE), None) }

\* The scopes of the calls that vary the fields.
ScopesFew ==
    { Some(S_all_paragraphs), Some(S_all_body_paragraphs),
      Some(S_headings_level_ \o <<"1">>), Some(S_paragraph_index_ \o <<"0">>) }

\* The spacing fields of set_paragraph_spacing.
SpacingFields ==
    [spacing_before : Spacings, spacing_after : Spacings, line_spacing : {None, Some(2)}]
SpacingFieldsFew ==
    { [spacing_before |-> Some(0), spacing_after |-> Some(18), line_spacing |-> None],
      [spacing_before |-> None, spacing_after |-> None, line_spacing |-> Some(2)] }

\* The level field of set_heading_style: absent, an integer, or a string.
LevelNone == [kind |-> "none", int |-> 0, str |-> <<>>]
LevelInt(n) == [kind |-> "int", int |-> n, str |-> <<>>]
LevelStr(s) == [kind |-> "str", int |-> 0, str |-> s]
Levels ==
    {LevelNone} \cup {LevelInt(n) : n \in -1..2}
    \cup {LevelStr(<<"1">>), LevelStr(<<"x">>), LevelStr(<<"1", ".", "0">>)}

\* The alignment field of set_alignment.
Alignments ==
    { None, Some(<<>>), Some(S_CENTER), Some(<<"r", "i", "g", "h", "t">>),
      Some(<<"J", "u", "s", "t", "i", "f", "y">>),
      Some(<<"M", "I", "D", "D", "L", "E">>),
      Some(<<"d", "i", "s", "t", "r", "i", "b", "u", "t", "e">>),
      Some(<<"j", "u", "s", "t", "i", "f", "y", "_", "l", "o", "w">>) }

\* The analysis lists a caller hands over.
Analyses(d) == {Fresh(d)} \cup Stale(d)

\* The find and replace_with fields of find_and_replace: texts the runs
\* hold once, twice, in another case, across two runs or not at all, and
\* replacements with and without backslashes.
Finds ==
    { FindNone, FindStr(<<>>), FindStr(<<"a">>), FindStr(<<"A", "a">>),
      FindStr(<<"b", "c">>), FindStr(<<"x">>), FindInt(5) }
\* The fields of fix_font_inconsistencies: target names and sizes the
\* runs have and have not, and scopes, the absent one among them.
TargetNames == {None, Some(""), Some("Arial"), Some("Impact")}
TargetSizes == {None, Some(0), Some(14), Some(20), Some(-5)}
FixScopes == ScopesFew \cup {None, Some(<<>>), Some(<<"a", "l", "l">>)}
FixFields ==
    [scope : FixScopes, target_font_name : TargetNames, target_font_size : TargetSizes]
FixFieldsFew ==
    [scope : {Some(S_all_body_paragraphs), Some(S_headings_level_ \o <<"1">>)},
     target_font_name : {Some("Impact")}, target_font_size : {None, Some(14)}]

Replacements ==
    { None, Some(<<>>), Some(<<"x">>), Some(<<"a", "a">>),
      Some(<<"\\", "n">>), Some(<<"\\", "1">>), Some(<<"\\", "\\">>),
      Some(<<"\\", "g", "<", "0", ">", "x">>), Some(<<"x", "\\">>),
      Some(<<"\\", ".">>) }


\* The rows, the columns and the cell coordinates of the table calls: one
\* below the least coordinate to the size of the largest table.
Dims == (0 - 1)..MaxDim

\* The data of add_table: none, an empty list, a list as large as the
\* largest table with a number in it, a list with fewer rows and columns,
\* a list with more rows and columns than any table, and lists with a row
\* that is no list.
DataSquare ==
    [i \in 1..MaxDim |->
        DataRow([j \in 1..MaxDim |->
                    IF i = MaxDim /\ j = MaxDim THEN IntValue(30)
                    ELSE StrValue(<<Lower[i], Upper[j]>>)])]
DataShort == <<DataRow(<<StrValue(<<"N">>)>>)>>
DataExcess ==
    [i \in 1..(MaxDim + 1) |->
        DataRow([j \in 1..(MaxDim + 1) |-> StrValue(<<Upper[i], Lower[j]>>)])]
Datas ==
    {None, Some(<<>>), Some(DataSquare), Some(DataShort), Some(DataExcess),
     Some(<<NotARow>>), Some(<<DataRow(<<StrValue(<<"N">>)>>), NotARow>>)}

\* The style names given to add_table: none, two of the template, a name
\* of no style, the empty name.
TableStyleNames == {None, Some("Table Grid"), Some("NonExistentStyle123"), Some("")}

\* The arguments of add_table: every size with every data and style on a
\* Document, and one call on a value that is no Document.
TableArgs(doc_ok, rows, cols, data, style) ==
    [doc_ok |-> doc_ok, rows |-> rows, cols |-> cols, data |-> data, style |-> style]
TableInputs ==
    {TableArgs(TRUE, in[1], in[2], in[3], in[4]) :
        in \in Dims \X Dims \X Datas \X TableStyleNames}
    \cup {TableArgs(FALSE, 2, 2, None, None)}

\* The arguments of the add_table that follows another one.
TableInputsFew ==
    {TableArgs(TRUE, 2, 1, None, None),
     TableArgs(TRUE, 1, 2, Some(DataExcess), None),
     TableArgs(TRUE, 2, 2, Some(DataShort), Some("Table Grid")),
     TableArgs(TRUE, 0, 2, None, None),
     TableArgs(TRUE, 1, 1, Some(<<NotARow>>), None),
     TableArgs(FALSE, 2, 2, None, None)}

\* The optional arguments of format_table_cell.
CellFormat(text, font_name, font_size, bold, italic, underline, alignment, shading) ==
    [text |-> text, font_name |-> font_name, font_size |-> font_size,
     bold |-> bold, italic |-> italic, underline |-> underline,
     alignment |-> alignment, shading |-> shading]
FormatFieldsFew ==
    {CellFormat(Some(<<"T">>), None, None, None, None, None, None, None),
     CellFormat(Some(<<"T">>), Some("Arial"), Some(12), Some(TRUE), None, None,
                Some(<<"c", "e", "n", "t", "e", "r">>), None),
     CellFormat(None, None, None, None, None, None, None, Some("C0C0C0"))}
\* The arguments of the calls that shade a cell and do nothing else.
ShadingFields ==
    {CellFormat(None, None, None, None, None, None, None, Some(c)) :
        c \in {"C0C0C0", "FF0000"}}
FormatFields ==
    FormatFieldsFew \cup
    {CellFormat(None, None, None, None, None, None, None, None),
     CellFormat(Some(<<>>), None, None, None, None, None, None, None),
     CellFormat(None, None, None, Some(FALSE), None, None, None, None),
     CellFormat(Some(<<"T">>), None, None, Some(FALSE), None, None, None, None),
     CellFormat(Some(<<"T">>), None, Some(0 - 1), None, None, None, None, Some("FF0000")),
     CellFormat(None, None, Some(0), None, Some(TRUE), Some(TRUE), None, None),
     CellFormat(None, None, None, None, None, None, Some(S_RIGHT), Some("")),
     CellFormat(None, Some("Arial"), None, None, None, None,
                Some(<<"m", "i", "d", "d", "l", "e">>), None)}

----------------------------------------------------------------------------
(* The calls *)

NoReturn == [raised |-> "", paras |-> <<>>]
NoOut == [ok |-> TRUE, n |-> 0]

\* A document was loaded and no call has been made on it.
Init ==
    /\ doc \in Documents
    /\ lib \in {"ValueError", "stored"}
    /\ elements = <<>>
    /\ pre = doc
    /\ call = [op |-> "load"]
    /\ ret = NoReturn
    /\ tables = <<>>
    /\ out = NoOut

\* One call is made on the loaded document.
Ready == call.op = "load"

\* The handler of the action named op was just given an action, with the
\* analysis of the document it was given or with none, and is given that
\* action once more with the same analysis, as a plan that holds the
\* action twice has it.  Plans are applied with the analysis taken before
\* their first action.  A call that changed nothing and raised nothing
\* is not repeated: the handler would be given what it was given before.
Repeats(op) ==
    /\ call.op = op
    /\ doc # pre \/ ret.raised # ""
    /\ elements \in {<<>>, Fresh(pre)}

\* The record of the call: the action given, and for an action given once
\* more the document as it was loaded.
Called(op, action) ==
    IF Ready THEN [op |-> op, action |-> action]
    ELSE [op |-> "again", of |-> op, action |-> action, loaded |-> pre]

\* What a handler's outcome h leaves in the state.
Handled(h, els, op, action) ==
    /\ doc' = h.doc
    /\ pre' = doc
    /\ elements' = els
    /\ call' = Called(op, action)
    /\ ret' = [raised |-> h.raised, paras |-> <<>>]
    /\ out' = NoOut
    /\ UNCHANGED <<lib, tables>>

\* What a handler that counts leaves in the state: out.n is the count it
\* reports.
Reported(h, els, op, action) ==
    /\ doc' = h.doc
    /\ pre' = doc
    /\ elements' = els
    /\ call' = Called(op, action)
    /\ ret' = [raised |-> h.raised, paras |-> <<>>]
    /\ out' = [ok |-> TRUE, n |-> h.count]
    /\ UNCHANGED <<lib, tables>>

\* get_document_analysis(doc)
Analyze ==
    /\ Ready
    /\ elements' = get_document_analysis(doc)
    /\ call' = [op |-> "analyze"]
    /\ pre' = doc
    /\ ret' = NoReturn
    /\ UNCHANGED <<doc, lib, tables, out>>

\* _get_target_paragraphs(doc, els, scope)
Resolve ==
    /\ Ready
    /\ \E els \in Analyses(doc), scope \in Scopes :
        /\ ret' = _get_target_paragraphs(doc, els, scope)
        /\ elements' = els
        /\ call' = [op |-> "resolve", action |-> [scope |-> scope]]
        /\ pre' = doc
        /\ UNCHANGED <<doc, lib, tables, out>>

\* The analysis and the action of a call of the handler named op: those of
\* the set first when the document was just loaded, those of the last call
\* when the action is given once more.
Given(op, first) == IF Ready THEN first ELSE {<<elements, call.action>>}

\* apply_set_font_action(doc, els, action)
SetFontInputs ==
    {<<in[1], [scope |-> in[2]] @@ in[3]>> :
        in \in (Analyses(doc) \X Scopes \X FontFieldsFew)
               \cup ({Fresh(doc)} \X ScopesFew \X FontFields)}
SetFont ==
    /\ Ready \/ Repeats("set_font")
    /\ \E in \in Given("set_font", SetFontInputs) :
        Handled(apply_set_font_action(doc, in[1], in[2]), in[1], "set_font", in[2])

\* apply_set_heading_style_action(doc, els, action)
SetHeadingStyleInputs ==
    {<<in[1], [level |-> in[2], spacing_after |-> in[4]] @@ in[3]>> :
        in \in (Analyses(doc) \X Levels \X FontFieldsFew \X {None, Some(18)})
               \cup ({Fresh(doc)} \X {LevelInt(1)} \X FontFields \X Spacings)}
SetHeadingStyle ==
    /\ Ready \/ Repeats("set_heading_style")
    /\ \E in \in Given("set_heading_style", SetHeadingStyleInputs) :
        Handled(apply_set_heading_style_action(doc, in[1], in[2]), in[1],
                "set_heading_style", in[2])

\* apply_set_paragraph_spacing_action(doc, els, action)
SetParagraphSpacingInputs ==
    {<<Fresh(doc), [scope |-> in[1]] @@ in[2]>> :
        in \in (Scopes \X SpacingFieldsFew) \cup (ScopesFew \X SpacingFields)}
SetParagraphSpacing ==
    /\ Ready \/ Repeats("set_paragraph_spacing")
    /\ \E in \in Given("set_paragraph_spacing", SetParagraphSpacingInputs) :
        Handled(apply_set_paragraph_spacing_action(doc, in[1], in[2]), in[1],
                "set_paragraph_spacing", in[2])

\* apply_set_alignment_action(doc, els, action)
SetAlignmentInputs ==
    {<<Fresh(doc), [scope |-> in[1], alignment |-> in[2]]>> :
        in \in Scopes \X Alignments}
SetAlignment ==
    /\ Ready \/ Repeats("set_alignment")
    /\ \E in \in Given("set_alignment", SetAlignmentInputs) :
        Handled(apply_set_alignment_action(doc, in[1], in[2]), in[1],
                "set_alignment", in[2])

\* apply_find_and_replace_action(doc, action)
FindAndReplaceInputs ==
    {<<<<>>, [find |-> in[1], replace_with |-> in[2]]>> :
        in \in Finds \X Replacements}
FindAndReplace ==
    /\ Ready \/ Repeats("find_and_replace")
    /\ \E in \in Given("find_and_replace", FindAndReplaceInputs) :
        Reported(apply_find_and_replace_action(doc, in[2]), in[1],
                 "find_and_replace", in[2])

\* apply_fix_font_inconsistencies_action(doc, els, action)
FixFontInconsistenciesInputs ==
    ({Fresh(doc)} \X FixFields) \cup (Stale(doc) \X FixFieldsFew)
FixFontInconsistencies ==
    /\ Ready \/ Repeats("fix_font_inconsistencies")
    /\ \E in \in Given("fix_font_inconsistencies", FixFontInconsistenciesInputs) :
        Reported(apply_fix_font_inconsistencies_action(doc, in[1], in[2]), in[1],
                 "fix_font_inconsistencies", in[2])

\* The documents the tables are added to hold no text yet.
NoText(d) == \A i \in 1..Len(d) : d[i].runs = <<>>

\* What a table call leaves in the state: the paragraphs are not touched,
\* nothing is raised to the caller.
Tabled(ts, ok, n, op, action) ==
    /\ tables' = ts
    /\ out' = [ok |-> ok, n |-> n]
    /\ call' = [op |-> op, action |-> action, had |-> tables]
    /\ pre' = doc
    /\ ret' = NoReturn
    /\ UNCHANGED <<doc, elements, lib>>

\* add_table(doc, rows, cols, data, style), on the loaded document or
\* after a plain add_table.
AddTable ==
    /\ NoText(doc)
    /\ Len(tables) < MaxTables
    /\ \/ Ready
       \/ /\ call.op = "add_table"
          /\ call.action.data = None /\ call.action.style = None
    /\ \E action \in IF Ready THEN TableInputs ELSE TableInputsFew :
        LET t == add_table(tables, action.doc_ok, action.rows, action.cols,
                           action.data, action.style)
        IN  Tabled(t.tables, t.ok, t.n, "add_table", action)

\* The last call shaded a cell of the table and did nothing else, and the
\* cell can take one more shading.
Shaded ==
    /\ call.op = "format_table_cell"
    /\ call.action.f \in ShadingFields
    /\ ~CellOutOfBounds(tables[out.n], call.action.row, call.action.col)
    /\ Len(TableCell(tables[out.n], call.action.row, call.action.col).shading)
            < MaxShadings

\* format_table_cell(table, row, col, ...) on the table add_table
\* returned, or on that table after merge_table_cells, or once more on
\* the cell the last call shaded.  The tables formatted and merged are
\* those of the default style.
FormatTableCell ==
    /\ call.op \in {"add_table", "merge_table_cells"} \/ Shaded
    /\ out.ok
    /\ tables[out.n].style = None
    /\ LET again == call.op = "format_table_cell"
       IN  \E row \in IF again THEN {call.action.row} ELSE Dims,
              col \in IF again THEN {call.action.col} ELSE Dims,
              f \in IF again THEN ShadingFields
                    ELSE IF call.op = "add_table" THEN FormatFields
                    ELSE FormatFieldsFew :
            LET t == format_table_cell(tables[out.n], row, col, f)
            IN  Tabled([tables EXCEPT ![out.n] = t.table], t.ok, out.n,
                       "format_table_cell", [row |-> row, col |-> col, f |-> f])

\* merge_table_cells(table, start_row, start_col, end_row, end_col) on the
\* table add_table returned.
MergeTableCells ==
    /\ call.op = "add_table"
    /\ out.ok
    /\ tables[out.n].style = None
    /\ \E start_row \in Dims, start_col \in Dims, end_row \in Dims, end_col \in Dims :
        LET t == merge_table_cells(tables[out.n], start_row, start_col, end_row, end_col)
        IN  Tabled([tables EXCEPT ![out.n] = t.table], t.ok, out.n, "merge_table_cells",
                   [start_row |-> start_row, start_col |-> start_col,
                    end_row |-> end_row, end_col |-> end_col])

Next ==
    \/ Analyze
    \/ Resolve
    \/ SetFont
    \/ SetHeadingStyle
    \/ SetParagraphSpacing
    \/ SetAlignment
    \/ FindAndReplace
    \/ FixFontInconsistencies
    \/ AddTable
    \/ FormatTableCell
    \/ MergeTableCells

Spec == Init /\ [][Next]_vars

\* The calls on the documents that have one kind of paragraph per way the
\* inspector classifies a style: a title, a level 1 heading, a Heading
\* style with no number, and a body paragraph, which has no runs.
PlanParagraphs ==
    { Paragraph(S_Title, <<RunPlain>>, None, None),
      Paragraph(S_Heading \o <<" ", "1">>, <<RunPlain, RunStyled>>, Some(S_LEFT), None),
      Paragraph(S_Heading \o <<" ", "x">>, <<RunStyled>>, None, None),
      Paragraph(S_Normal, <<>>, Some(S_CENTER), Some(120)) }

InitPlans ==
    /\ Init
    /\ \A i \in 1..Len(doc) : \E p \in PlanParagraphs : doc[i] = [id |-> i - 1] @@ p

SpecPlans == InitPlans /\ [][Next]_vars

\* The inspector on the documents of every style name.
InitStyles ==
    /\ doc \in StyledDocuments
    /\ lib \in {"ValueError", "stored"}
    /\ elements = <<>>
    /\ pre = doc
    /\ call = [op |-> "load"]
    /\ ret = NoReturn
    /\ tables = <<>>
    /\ out = NoOut

NextStyles == Analyze

SpecStyles == InitStyles /\ [][NextStyles]_vars

----------------------------------------------------------------------------
(* Properties of the scope resolver *)

IsResolve == call.op = "resolve"

\* The integers the properties range over.
Numbers == -12..12

\* "paragraph_index_<N>" and "headings_level_<N>" for an integer N.
IndexScope(N) == Some(S_paragraph_index_ \o IntToStr(N))
HeadingScope(N) == Some(S_headings_level_ \o IntToStr(N))

Range(s) == {s[i] : i \in 1..Len(s)}
Ascending(s) == \A i \in 1..(Len(s) - 1) : s[i] < s[i + 1]

\* The positions of the paragraphs of d whose record in els, the analysis
\* of d, has type t.
Classified(d, els, t) == {i \in 0..(Len(d) - 1) : els[i + 1].type = Some(t)}

\* C1: resolving "paragraph_index_<N>" returns exactly the paragraph at
\* position N when 0 <= N < count, and the empty list, without raising,
\* for every other integer N, whatever analysis list is passed.
C1_ParagraphIndex ==
    IsResolve =>
        \A N \in Numbers :
            call.action.scope = IndexScope(N) =>
                ret = [raised |-> "",
                       paras |-> IF 0 <= N /\ N < Len(doc) THEN <<N>> ELSE <<>>]

\* C1 witness: "paragraph_index_1" resolved on a document of two
\* paragraphs to its second paragraph.
C1_Witness ==
    /\ IsResolve
    /\ call.action.scope = IndexScope(1)
    /\ Len(doc) = 2
    /\ ret.paras = <<1>>

\* C2: resolving "all_paragraphs" returns every paragraph of the document
\* once, in ascending position, whatever analysis list is passed.
C2_AllParagraphs ==
    (IsResolve /\ call.action.scope = Some(S_all_paragraphs)) =>
        /\ ret.raised = ""
        /\ Len(ret.paras) = Len(doc)
        /\ \A i \in 1..Len(doc) : ret.paras[i] = i - 1

\* C2 witness: "all_paragraphs" resolved on a document of two paragraphs
\* with a list that is not the document's analysis.
C2_Witness ==
    /\ IsResolve
    /\ call.action.scope = Some(S_all_paragraphs)
    /\ Len(doc) = 2
    /\ elements # Fresh(doc)
    /\ ret.paras = <<0, 1>>

\* C3: with the analysis of the current document, "headings_level_<N>"
\* returns, in document order, exactly the paragraphs whose record has
\* type heading and level N; no paragraph whose record has type
\* paragraph is returned.
C3_HeadingsLevel ==
    (IsResolve /\ elements = Fresh(doc)) =>
        \A N \in Numbers :
            call.action.scope = HeadingScope(N) =>
                /\ ret.raised = ""
                /\ Ascending(ret.paras)
                /\ Range(ret.paras) =
                       {i \in Classified(doc, elements, "heading") :
                           elements[i + 1].level = Some(N)}
                /\ Range(ret.paras) \cap Classified(doc, elements, "paragraph") = {}

\* C3 witness: "headings_level_0" on a document whose first paragraph has
\* the style "Heading x" (type paragraph, level 0) and whose second is the
\* title returns the title alone.
C3_Witness ==
    /\ IsResolve
    /\ elements = Fresh(doc)
    /\ call.action.scope = HeadingScope(0)
    /\ Len(doc) = 2
    /\ doc[1].style = S_Heading \o <<" ", "x">>
    /\ doc[2].style = S_Title
    /\ ret.paras = <<1>>

\* C4: with the analysis of the current document, "all_body_paragraphs"
\* returns, in document order, exactly the paragraphs whose record has
\* type paragraph, and no paragraph classified heading.
C4_BodyParagraphs ==
    (IsResolve /\ elements = Fresh(doc)
        /\ call.action.scope = Some(S_all_body_paragraphs)) =>
        /\ ret.raised = ""
        /\ Ascending(ret.paras)
        /\ Range(ret.paras) = Classified(doc, elements, "paragraph")
        /\ Range(ret.paras) \cap Classified(doc, elements, "heading") = {}

\* C4 witness: "all_body_paragraphs" on a level 1 heading followed by a
\* "Heading x" paragraph returns the second paragraph alone.
C4_Witness ==
    /\ IsResolve
    /\ elements = Fresh(doc)
    /\ call.action.scope = Some(S_all_body_paragraphs)
    /\ Len(doc) = 2
    /\ doc[1].style = S_Heading \o <<" ", "1">>
    /\ doc[2].style = S_Heading \o <<" ", "x">>
    /\ ret.paras = <<1>>

\* The text t is one integer: no underscore-separated parts, and a text
\* int() accepts (a sign and blanks around the digits included).
OneInteger(t) == (\A i \in 1..Len(t) : t[i] # "_") /\ ParseInt(t).ok

\* The scopes of the grammar: the two literals and the two prefixes
\* followed by one integer.
ValidScope(scope) ==
    \/ scope \in {Some(S_all_paragraphs), Some(S_all_body_paragraphs)}
    \/ /\ scope # None
       /\ \E prefix \in {S_headings_level_, S_paragraph_index_} :
            /\ StartsWith(Val(scope), prefix)
            /\ OneInteger(SubSeq(Val(scope), Len(prefix) + 1, Len(Val(scope))))

\* C5: for every scope outside the grammar (empty, absent, unknown, or a
\* prefix followed by more than one integer) resolution returns the empty
\* list, and set_font, set_paragraph_spacing and set_alignment with that
\* scope leave the document unchanged.  Stated for the analysis of the
\* current document, where resolution does not raise.
C5_UnknownScopeIsNoOp ==
    /\ (IsResolve /\ elements = Fresh(doc) /\ ~ValidScope(call.action.scope)) =>
           ret = NoTargets
    /\ (call.op \in {"set_font", "set_paragraph_spacing", "set_alignment"}
            /\ elements = Fresh(pre) /\ ~ValidScope(call.action.scope)) => doc = pre

\* C6: scope resolution never raises, whatever scope and analysis list
\* (fresh, stale, without paragraph_index) it is given.
C6_ResolveNeverRaises == IsResolve => ret.raised = ""

----------------------------------------------------------------------------
(* Properties of set_font and set_heading_style *)

\* The scope the last call resolved: the scope field, the scope
\* set_heading_style builds from its level, or "all_paragraphs" for a
\* fix_font_inconsistencies without scope.
CallScope ==
    IF call.op = "set_heading_style"
    THEN Some(S_headings_level_ \o FormatLevel(call.action.level))
    ELSE IF call.op = "fix_font_inconsistencies" /\ call.action.scope = None
    THEN Some(S_all_paragraphs)
    ELSE call.action.scope

\* What that scope resolved to on the document the call was given.
CallTargets == _get_target_paragraphs(pre, elements, CallScope)

\* The 0-based positions the last call resolved; none when resolution
\* raised.
Targeted == IF CallTargets.raised = "" THEN Range(CallTargets.paras) ELSE {}

\* The call kept the paragraphs and the runs of the document in place and
\* touched nothing but the font attributes of runs of targeted paragraphs.
OnlyTargetedRuns ==
    /\ Len(doc) = Len(pre)
    /\ \A p \in 1..Len(doc) :
        /\ Len(doc[p].runs) = Len(pre[p].runs)
        /\ [doc[p] EXCEPT !.runs = pre[p].runs] = pre[p]
        /\ (p - 1) \notin Targeted => doc[p] = pre[p]
        /\ \A r \in 1..Len(doc[p].runs) : doc[p].runs[r].text = pre[p].runs[r].text

\* The pairs <<p, r>>: run r of the targeted paragraph doc[p].
TargetedRuns ==
    UNION {{<<p, r>> : r \in 1..Len(pre[p].runs)} : p \in {i + 1 : i \in Targeted}}

Now(pr) == get_run_details(doc[pr[1]].runs[pr[2]])
Before(pr) == get_run_details(pre[pr[1]].runs[pr[2]])

\* C7 as stated: on every run of every resolved paragraph each supplied
\* attribute takes the supplied value and each absent one keeps its
\* value; every other run is unchanged.  Stated for the actions whose size
\* is absent or not negative, which the library accepts.
C7_SuppliedTakesValue ==
    (call.op = "set_font"
        /\ (call.action.size = None \/ Val(call.action.size) >= 0)) =>
        LET a == call.action
        IN  /\ OnlyTargetedRuns
            /\ \A pr \in TargetedRuns :
                /\ Now(pr).font_name =
                       IF a.font_name # None THEN a.font_name ELSE Before(pr).font_name
                /\ Now(pr).font_size =
                       IF a.size # None THEN a.size ELSE Before(pr).font_size
                /\ Now(pr).bold = IF a.bold # None THEN a.bold ELSE Before(pr).bold
                /\ Now(pr).italic =
                       IF a.italic # None THEN a.italic ELSE Before(pr).italic
                /\ Now(pr).underline =
                       IF a.underline # None THEN a.underline ELSE Before(pr).underline

\* C7 amended: set_font touches nothing but font attributes of runs of
\* resolved paragraphs, and on those runs every attribute absent from the
\* action, a font_name that is empty and a size that is 0 keep the prior
\* value; when the size is absent or not negative, each supplied flag
\* (true or false), a supplied non-empty font_name and a supplied size
\* above 0 take the supplied value.
C7_SetFontFrame ==
    call.op = "set_font" =>
        LET a == call.action
        IN  /\ OnlyTargetedRuns
            /\ \A pr \in TargetedRuns :
                /\ ~TruthyStr(a.font_name) => Now(pr).font_name = Before(pr).font_name
                /\ ~TruthyInt(a.size) => Now(pr).font_size = Before(pr).font_size
                /\ a.bold = None => Now(pr).bold = Before(pr).bold
                /\ a.italic = None => Now(pr).italic = Before(pr).italic
                /\ a.underline = None => Now(pr).underline = Before(pr).underline
                /\ (a.size = None \/ Val(a.size) >= 0) =>
                    /\ ret.raised = ""
                    /\ TruthyStr(a.font_name) => Now(pr).font_name = a.font_name
                    /\ TruthyInt(a.size) => Now(pr).font_size = a.size
                    /\ a.bold # None => Now(pr).bold = a.bold
                    /\ a.italic # None => Now(pr).italic = a.italic
                    /\ a.underline # None => Now(pr).underline = a.underline

\* C7 witness: set_font with bold = false alone, scoped to the first of
\* two paragraphs, turned a bold run not bold, kept its name, size,
\* italic and underline, and left the second paragraph as it was.
C7_Witness ==
    /\ call.op = "set_font"
    /\ call.action = [scope |-> IndexScope(0)] @@ Font(None, None, Some(FALSE), None, None)
    /\ Len(doc) = 2
    /\ pre[1].runs = <<RunStyled>>
    /\ doc[1].runs = <<[RunStyled EXCEPT !.bold = Some(FALSE)]>>
    /\ doc[2] = pre[2]
    /\ pre[2].runs # <<>>

\* C8: set_font and set_heading_style with a size of 0 or less ignore the
\* size: every targeted run keeps its size and the other supplied
\* attributes are applied.
C8_NonPositiveSizeIgnored ==
    (call.op \in {"set_font", "set_heading_style"}
        /\ call.action.size # None /\ Val(call.action.size) <= 0) =>
        LET a == call.action
        IN  \A pr \in TargetedRuns :
                /\ Now(pr).font_size = Before(pr).font_size
                /\ TruthyStr(a.font_name) => Now(pr).font_name = a.font_name
                /\ a.bold # None => Now(pr).bold = a.bold
                /\ a.italic # None => Now(pr).italic = a.italic
                /\ a.underline # None => Now(pr).underline = a.underline

\* paragraph_format.space_after in points.
SpaceAfterPt(para) ==
    IF para.space_after # None THEN Some(Val(para.space_after) \div 20) ELSE None

\* The last call is set_heading_style with an integer level and all of
\* font_name, size, bold and spacing_after, on the document's analysis.
FullHeadingStyle ==
    /\ call.op = "set_heading_style"
    /\ call.action.level.kind = "int"
    /\ elements = Fresh(pre)
    /\ call.action.font_name # None
    /\ call.action.size # None
    /\ call.action.bold # None
    /\ call.action.spacing_after # None

\* The 0-based positions of the paragraphs classified heading of level L.
HeadingsOfLevel(L) ==
    {i \in Classified(pre, elements, "heading") : elements[i + 1].level = Some(L)}

\* Every run of every heading of the action's level has the action's font
\* name, size and bold, each such heading has its space after, and every
\* other paragraph is as it was.
HeadingStyleApplied ==
    LET a == call.action
    IN  /\ Len(doc) = Len(pre)
        /\ \A p \in 1..Len(doc) :
            IF (p - 1) \in HeadingsOfLevel(a.level.int)
            THEN /\ SpaceAfterPt(doc[p]) = a.spacing_after
                 /\ Len(doc[p].runs) = Len(pre[p].runs)
                 /\ \A r \in 1..Len(doc[p].runs) :
                     LET run == get_run_details(doc[p].runs[r])
                     IN  /\ run.font_name = a.font_name
                         /\ run.font_size = a.size
                         /\ run.bold = a.bold
            ELSE doc[p] = pre[p]

\* C9 as stated: after set_heading_style with level L, font_name, size,
\* bold and spacing_after, every run of every heading of level L has that
\* name, size and bold, each such heading that space after, and the other
\* paragraphs are unchanged.  Stated for the sizes and spacings that are
\* not negative, which the library accepts.
C9_HeadingStyleAnyFields ==
    (FullHeadingStyle
        /\ Val(call.action.size) >= 0
        /\ Val(call.action.spacing_after) >= 0) => HeadingStyleApplied

\* C9 amended: the same, for a non-empty font_name, a size above 0 and a
\* spacing_after that is not negative.
C9_HeadingStyleApplied ==
    (FullHeadingStyle
        /\ call.action.font_name # Some("")
        /\ Val(call.action.size) > 0
        /\ Val(call.action.spacing_after) >= 0) => HeadingStyleApplied

\* C9 witness: level 1, "Impact", 20 pt, bold = false, 18 pt after, on a
\* level 1 heading whose run was bold, followed by the title.
C9_Witness ==
    /\ call.op = "set_heading_style"
    /\ elements = Fresh(pre)
    /\ call.action = [level |-> LevelInt(1), spacing_after |-> Some(18)]
                        @@ Font(Some("Impact"), Some(20), Some(FALSE), None, None)
    /\ Len(doc) = 2
    /\ pre[1].style = S_Heading \o <<" ", "1">>
    /\ pre[1].runs = <<RunStyled>>
    /\ doc[1].runs[1].bold = Some(FALSE)
    /\ doc[1].runs[1].sz = Some(40)
    /\ doc[1].space_after = Some(360)
    /\ pre[2].style = S_Title
    /\ doc[2] = pre[2]

\* set_font on the scope "headings_level_<level>" with the action's font
\* fields, then, unless that raised or spacing_after is absent,
\* set_paragraph_spacing on the same scope with the action's
\* spacing_after.
FontThenSpacing(d, els, a) ==
    LET scope == Some(S_headings_level_ \o FormatLevel(a.level))
        f == apply_set_font_action(d, els,
                 [scope |-> scope] @@
                 Font(a.font_name, a.size, a.bold, a.italic, a.underline))
    IN  IF f.raised # "" \/ a.spacing_after = None THEN f
        ELSE apply_set_paragraph_spacing_action(f.doc, els,
                 [scope |-> scope, spacing_before |-> None,
                  spacing_after |-> a.spacing_after, line_spacing |-> None])

\* C10: set_heading_style leaves the document as set_font on
\* "headings_level_<L>" followed by set_paragraph_spacing on the same
\* scope leaves it, and with a level that is absent or not an integer it
\* changes nothing.  Stated for the analysis of the current document.
C10_HeadingStyleIsFontThenSpacing ==
    (call.op = "set_heading_style" /\ elements = Fresh(pre)) =>
        /\ doc = FontThenSpacing(pre, elements, call.action).doc
        /\ call.action.level.kind # "int" => doc = pre

----------------------------------------------------------------------------
(* Properties of set_paragraph_spacing and set_alignment *)

\* paragraph_format.space_before in points, and line_spacing as the
\* multiple of a line it reads back as.
SpaceBeforePt(para) ==
    IF para.space_before # None THEN Some(Val(para.space_before) \div 20) ELSE None
LineSpacingMultiple(para) ==
    IF para.line_spacing # None THEN Some(Val(para.line_spacing) \div 240) ELSE None

\* The paragraph now is the paragraph was, its three spacings apart.
OnlySpacingChanged(now, was) ==
    [now EXCEPT !.space_before = was.space_before,
                !.space_after = was.space_after,
                !.line_spacing = was.line_spacing] = was

\* C11: set_paragraph_spacing sets, on every resolved paragraph, each of
\* space before, space after and line spacing that the action holds (0
\* included) to the value given, keeps each one the action does not hold,
\* and leaves the paragraphs outside the scope as they were.
C11_SpacingIndependent ==
    call.op = "set_paragraph_spacing" =>
        LET a == call.action
        IN  /\ Len(doc) = Len(pre)
            /\ \A p \in 1..Len(doc) :
                IF (p - 1) \in Targeted
                THEN /\ OnlySpacingChanged(doc[p], pre[p])
                     /\ SpaceBeforePt(doc[p]) =
                            IF a.spacing_before # None THEN a.spacing_before
                            ELSE SpaceBeforePt(pre[p])
                     /\ SpaceAfterPt(doc[p]) =
                            IF a.spacing_after # None THEN a.spacing_after
                            ELSE SpaceAfterPt(pre[p])
                     /\ LineSpacingMultiple(doc[p]) =
                            IF a.line_spacing # None THEN a.line_spacing
                            ELSE LineSpacingMultiple(pre[p])
                ELSE doc[p] = pre[p]

\* The last call, set_alignment, gave the alignment named upper to every
\* resolved paragraph when its alignment string is, whatever its case, one
\* of names, changed nothing otherwise, and did not raise.
AlignmentSetFor(names) ==
    LET a == call.action.alignment
        upper == IF a = None THEN <<>> ELSE ToUpper(Val(a))
    IN  /\ ret.raised = ""
        /\ Len(doc) = Len(pre)
        /\ \A p \in 1..Len(doc) :
            IF upper \in names /\ (p - 1) \in Targeted
            THEN doc[p] = [pre[p] EXCEPT !.alignment = Some(upper)]
            ELSE doc[p] = pre[p]

AlignmentNames ==
    { S_LEFT, S_CENTER, S_RIGHT, S_JUSTIFY, S_DISTRIBUTE,
      S_JUSTIFY \o <<"_", "M", "E", "D">>, S_JUSTIFY \o <<"_", "H", "I">>,
      S_JUSTIFY \o <<"_", "L", "O", "W">>, <<"T", "H", "A", "I", "_">> \o S_JUSTIFY }

----------------------------------------------------------------------------
(* Properties of find_and_replace and fix_font_inconsistencies *)

RECURSIVE ReplaceAll(_, _, _)
\* text with every occurrence of find, case ignored, taken from the left
\* and not overlapping another, replaced by the characters of with.
ReplaceAll(text, find, with) ==
    IF Len(text) < Len(find) THEN text
    ELSE IF ToLower(SubSeq(text, 1, Len(find))) = ToLower(find)
    THEN with \o ReplaceAll(SubSeq(text, Len(find) + 1, Len(text)), find, with)
    ELSE <<Head(text)>> \o ReplaceAll(Tail(text), find, with)

\* The last call is find_and_replace with a find that is a string and not
\* empty, and a replace_with.
IsReplace ==
    /\ call.op = "find_and_replace"
    /\ call.action.find.kind = "str"
    /\ call.action.find.str # <<>>
    /\ call.action.replace_with # None

\* C13: find_and_replace with a non-empty find leaves each run of each
\* paragraph with its own text in which every occurrence of find, case
\* ignored and none overlapping another, is replaced; an occurrence that
\* spans two runs is not replaced; the number of runs and the font
\* attributes of each run are unchanged.
C13_ReplaceRunByRun ==
    IsReplace =>
        /\ Len(doc) = Len(pre)
        /\ \A p \in 1..Len(doc) :
            /\ Len(doc[p].runs) = Len(pre[p].runs)
            /\ [doc[p] EXCEPT !.runs = pre[p].runs] = pre[p]
            /\ \A r \in 1..Len(doc[p].runs) :
                doc[p].runs[r] =
                    [pre[p].runs[r] EXCEPT !.text =
                        ReplaceAll(pre[p].runs[r].text, call.action.find.str,
                                   Val(call.action.replace_with))]

\* The last call, fix_font_inconsistencies, did what is claimed when
\* hasName and hasSize tell whether a target name and a target size count
\* as supplied: every run of every resolved paragraph has the supplied
\* targets and keeps what was not supplied, the count reported is the
\* number of those runs whose name or size was not the target already,
\* and with neither supplied the document is as it was.
FixedAsSupplied(hasName, hasSize) ==
    LET a == call.action
        Differs(pr) ==
            \/ hasName /\ Before(pr).font_name # a.target_font_name
            \/ hasSize /\ Before(pr).font_size # a.target_font_size
    IN  /\ ret.raised = ""
        /\ \A pr \in TargetedRuns :
            /\ Now(pr).font_name =
                   IF hasName THEN a.target_font_name ELSE Before(pr).font_name
            /\ Now(pr).font_size =
                   IF hasSize THEN a.target_font_size ELSE Before(pr).font_size
        /\ out.n = Cardinality({pr \in TargetedRuns : Differs(pr)})
        /\ (~hasName /\ ~hasSize) => doc = pre

\* The last call left everything but the name and the size of the runs of
\* resolved paragraphs as it was.
OnlyNameAndSize ==
    /\ OnlyTargetedRuns
    /\ \A p \in 1..Len(doc) : \A r \in 1..Len(doc[p].runs) :
        [doc[p].runs[r] EXCEPT !.name = pre[p].runs[r].name,
                               !.sz = pre[p].runs[r].sz] = pre[p].runs[r]

\* C14 as stated: after fix_font_inconsistencies every run of every
\* resolved paragraph has the target name and size the action holds, the
\* count is the number of runs one of the two was written for, the scope
\* is "all_paragraphs" when absent, and with neither target in the action
\* nothing changes.  Stated for the analysis of the current document and
\* the sizes that are not negative, which the library accepts.
C14_FixFontAsSupplied ==
    (call.op = "fix_font_inconsistencies" /\ elements = Fresh(pre)
        /\ (call.action.target_font_size = None
               \/ Val(call.action.target_font_size) >= 0)) =>
        /\ OnlyNameAndSize
        /\ FixedAsSupplied(call.action.target_font_name # None,
                           call.action.target_font_size # None)

\* C14 amended: the same, where a target name counts as supplied when it
\* is not empty and a target size when it is above 0; an empty name and a
\* size of 0 are as absent; stated, as C14 is, for the analysis of the
\* current document and the sizes that are not negative.  Nothing but
\* names and sizes of runs of resolved paragraphs is ever changed.
C14_FixFontTruthy ==
    call.op = "fix_font_inconsistencies" =>
        /\ OnlyNameAndSize
        /\ (elements = Fresh(pre)
              /\ (call.action.target_font_size = None
                     \/ Val(call.action.target_font_size) >= 0)) =>
            FixedAsSupplied(TruthyStr(call.action.target_font_name),
                            TruthyInt(call.action.target_font_size))

\* C14 witness: "Impact", 14 pt and no scope on one body paragraph whose
\* first run was Arial 14 pt and whose second had no name and no size:
\* both runs are Impact 14 pt now, and two runs are counted.
C14_Witness ==
    /\ call.op = "fix_font_inconsistencies"
    /\ call.action = [scope |-> None, target_font_name |-> Some("Impact"),
                      target_font_size |-> Some(14)]
    /\ Len(doc) = 1
    /\ pre[1].runs = <<RunStyled, RunPlain>>
    /\ doc[1].runs = <<[RunStyled EXCEPT !.name = Some("Impact")],
                       [RunPlain EXCEPT !.name = Some("Impact"), !.sz = Some(28)]>>
    /\ out.n = 2

----------------------------------------------------------------------------
(* Properties of every action handler *)

\* The action handlers of the dispatcher.
Handlers ==
    { "set_font", "set_heading_style", "set_paragraph_spacing", "set_alignment",
      "find_and_replace", "fix_font_inconsistencies" }

\* C15: no action handler raises, whatever the action record holds: each
\* returns after a partial application or none.  Stated for the analysis
\* of the current document, so that the action record alone is at fault.
C15_HandlersNeverRaise ==
    (call.op \in Handlers /\ elements \in {<<>>, Fresh(pre)}) => ret.raised = ""

\* The last call is an action of the dispatcher: the first of a plan, or
\* the second.
IsAction == call.op \in Handlers \cup {"again"}

\* C16: after any sequence of dispatcher actions the document body holds
\* the paragraphs it held when loaded, in the same order: paragraph i of
\* the document is the i-th paragraph loaded, and there is no other.
C16_SameParagraphs ==
    IsAction =>
        /\ Len(doc) = Len(pre)
        /\ \A i \in 1..Len(doc) : doc[i].id = i - 1 /\ pre[i].id = i - 1

\* C16 witness: the second of two find_and_replace on a document of two
\* paragraphs, one of them without runs, after the first changed a text.
C16_Witness ==
    /\ call.op = "again"
    /\ call.of = "find_and_replace"
    /\ Len(doc) = 2
    /\ call.loaded # pre
    /\ doc[1].runs = <<>>
    /\ doc[2].id = 1

\* C17 as stated: applying an action of any variant twice in succession
\* leaves the document as applying it once.
C17_EveryActionIdempotent == call.op = "again" => doc = pre

\* No run of the document d holds the text the action a looks for.
NothingToFind(d, a) ==
    \/ a.find.kind # "str"
    \/ a.find.str = <<>>
    \/ \A p \in 1..Len(d) : \A r \in 1..Len(d[p].runs) :
           ~Contains(d[p].runs[r].text, a.find.str)

\* C17 amended: applying set_font, set_heading_style,
\* set_paragraph_spacing, set_alignment or fix_font_inconsistencies twice
\* in succession leaves the document as applying it once; so does
\* find_and_replace when the texts the first application left hold no
\* occurrence of find.
C17_IdempotentButReplace ==
    (call.op = "again"
        /\ (call.of # "find_and_replace" \/ NothingToFind(pre, call.action))) =>
        doc = pre

\* C17 witness: set_heading_style applied a second time to a document
\* its first application had changed, and the document stayed as it was.
C17_Witness ==
    /\ call.op = "again"
    /\ call.of = "set_heading_style"
    /\ call.action.spacing_after = Some(18)
    /\ call.loaded # pre
    /\ doc = pre
    /\ ret.raised = ""


----------------------------------------------------------------------------
(* Properties of the table utilities *)

IsAddTable == call.op = "add_table"

\* The data is of the type of the contract: absent, or a list of lists.
ListOfLists(data) ==
    data = None \/ \A i \in 1..Len(Val(data)) : Val(data)[i].kind = "list"

\* C18: add_table with rows <= 0 or cols <= 0, or on a value that is no
\* Document, returns None, raises nothing and adds no table; with
\* rows > 0 and cols > 0 on a Document, with data that is absent or a
\* list of lists, it returns a table of exactly rows x cols, the last of
\* the document's tables, which are one more than before.
C18_AddTableDimensions ==
    (IsAddTable /\ ListOfLists(call.action.data)) =>
        LET a == call.action
        IN  /\ ret.raised = ""
            /\ IF a.doc_ok /\ a.rows > 0 /\ a.cols > 0
               THEN /\ out.ok
                    /\ Len(tables) = Len(call.had) + 1
                    /\ SubSeq(tables, 1, Len(call.had)) = call.had
                    /\ out.n = Len(tables)
                    /\ tables[out.n].rows = a.rows
                    /\ tables[out.n].cols = a.cols
                    /\ DOMAIN tables[out.n].cells = Grid(a.rows, a.cols)
                    /\ \A rc \in Grid(a.rows, a.cols) : tables[out.n].at[rc] = rc
               ELSE /\ ~out.ok
                    /\ tables = call.had

\* C18 witness: a second table, of 1 x 2, was added with data larger than
\* it.
C18_Witness ==
    /\ IsAddTable
    /\ call.action.rows = 1 /\ call.action.cols = 2
    /\ call.action.data = Some(DataExcess)
    /\ Len(call.had) = 1
    /\ out.ok
    /\ Len(tables) = 2
    /\ tables[2].rows = 1 /\ tables[2].cols = 2


\* The value data holds for the cell (i, j), if it holds one.
HasDatum(data, i, j) ==
    /\ data # None
    /\ i < Len(Val(data))
    /\ j < Len(Val(data)[i + 1].items)
Datum(data, i, j) == Val(data)[i + 1].items[j + 1]

\* C19: add_table populates cell by cell: for every (i, j) of the table
\* the text of the cell is str(data[i][j]) when data has a row i with a
\* column j, and empty otherwise; rows and columns of data beyond the
\* table are dropped and the table is returned all the same.
C19_PopulatedCellByCell ==
    LET a == call.action
    IN  (/\ IsAddTable
         /\ a.doc_ok /\ a.rows > 0 /\ a.cols > 0
         /\ ListOfLists(a.data)) =>
            /\ out.ok
            /\ \A rc \in Grid(a.rows, a.cols) :
                 CellText(TableCell(tables[out.n], rc[1], rc[2])) =
                     IF HasDatum(a.data, rc[1], rc[2])
                     THEN ToStr(Datum(a.data, rc[1], rc[2]))
                     ELSE <<>>

\* C19 witness: a table of 2 x 1 made from data of three rows and three
\* columns holds the first column of the first two rows.
C19_Witness ==
    /\ IsAddTable
    /\ call.action.rows = 2 /\ call.action.cols = 1
    /\ call.action.data = Some(DataExcess)
    /\ out.ok
    /\ CellText(TableCell(tables[out.n], 0, 0)) = <<"A", "a">>
    /\ CellText(TableCell(tables[out.n], 1, 0)) = <<"B", "a">>


IsFormatCell == call.op = "format_table_cell"
IsMergeCells == call.op = "merge_table_cells"

\* The table a table call was made on, as it was before the call.
TableBefore == call.had[out.n]

\* C20: format_table_cell with row or col outside [0, rows) x [0, cols),
\* and merge_table_cells with a region that does not satisfy
\* 0 <= start_row <= end_row < rows and 0 <= start_col <= end_col < cols,
\* return False, raise nothing and leave the text, the formatting, the
\* shading and the merge state of every cell as they were.
C20_BadCoordinatesNoMutation ==
    /\ IsFormatCell =>
         LET a == call.action
         IN  ~(/\ 0 <= a.row /\ a.row < TableBefore.rows
               /\ 0 <= a.col /\ a.col < TableBefore.cols) =>
                 /\ ~out.ok
                 /\ ret.raised = ""
                 /\ tables = call.had
    /\ IsMergeCells =>
         LET a == call.action
         IN  ~(/\ 0 <= a.start_row /\ a.start_row <= a.end_row
               /\ a.end_row < TableBefore.rows
               /\ 0 <= a.start_col /\ a.start_col <= a.end_col
               /\ a.end_col < TableBefore.cols) =>
                 /\ ~out.ok
                 /\ ret.raised = ""
                 /\ tables = call.had

\* C20 witness: on a table with text whose first row was merged,
\* format_table_cell was given a text and a font for a column past the
\* last one, returned False and left the table as it was.
C20_Witness ==
    /\ IsFormatCell
    /\ call.action.row = 0
    /\ call.action.col = TableBefore.cols
    /\ call.action.f.text # None
    /\ call.action.f.font_name # None
    /\ ~out.ok
    /\ tables = call.had
    /\ TableBefore.cols = 2
    /\ TableBefore.at[<<0, 1>>] = <<0, 0>>
    /\ CellText(TableCell(TableBefore, 0, 0)) # <<>>


\* The coordinates of the call are inside the table the call was made on.
CellInBounds ==
    /\ 0 <= call.action.row /\ call.action.row < TableBefore.rows
    /\ 0 <= call.action.col /\ call.action.col < TableBefore.cols

\* The first paragraph of the cell format_table_cell was called for, after
\* the call.
FormattedParagraph ==
    TableCell(tables[out.n], call.action.row, call.action.col).paras[1]

\* The arguments hold a font attribute; the arguments hold values a font
\* and an alignment can take: a name that is not empty, a size above 0,
\* the name of a member of WD_ALIGN_PARAGRAPH in any case.
SuppliesFont(f) ==
    \/ f.font_name # None \/ f.font_size # None
    \/ f.bold # None \/ f.italic # None \/ f.underline # None
ProperValues(f) ==
    /\ f.font_name # None => Val(f.font_name) # ""
    /\ f.font_size # None => Val(f.font_size) > 0
    /\ f.alignment # None => ToUpper(Val(f.alignment)) \in WD_ALIGN_PARAGRAPH

\* Every font attribute f supplies is set on the run, the size in
\* half-points.
RunHasFont(run, f) ==
    /\ f.font_name # None => run.name = f.font_name
    /\ f.font_size # None => run.sz = Some(HalfPoints(Val(f.font_size)))
    /\ f.bold # None => run.bold = f.bold
    /\ f.italic # None => run.italic = f.italic
    /\ f.underline # None => run.underline = f.underline

\* C21: format_table_cell applies the text before the font: on a cell in
\* bounds, a call with a text and with font attributes and/or an
\* alignment returns True and leaves the first paragraph of the cell
\* holding exactly the text, in runs that carry every font attribute
\* supplied, with the alignment supplied set on the paragraph.
C21_TextBeforeFont ==
    LET f == call.action.f
    IN  (/\ IsFormatCell /\ CellInBounds
         /\ f.text # None
         /\ SuppliesFont(f) \/ f.alignment # None
         /\ ProperValues(f)) =>
            /\ out.ok
            /\ JoinRuns(FormattedParagraph.runs) = Val(f.text)
            /\ \A i \in 1..Len(FormattedParagraph.runs) :
                 RunHasFont(FormattedParagraph.runs[i], f)
            /\ f.alignment # None =>
                 FormattedParagraph.alignment = Some(ToUpper(Val(f.alignment)))


\* The coordinates of the region of the merge_table_cells call.
MergedRegion ==
    (call.action.start_row..call.action.end_row)
        \X (call.action.start_col..call.action.end_col)

\* C22: after merge_table_cells succeeded on a region, every coordinate of
\* the region stands for the one top-left cell and every cell outside the
\* region is as it was; a format_table_cell addressed afterwards to a
\* coordinate of a merged region raises nothing, changes at most the
\* top-left cell of that region and leaves every other cell and the merge
\* state as they were.
C22_MergedRegionAliases ==
    /\ (IsMergeCells /\ out.ok) =>
         LET t == tables[out.n]
             first == <<call.action.start_row, call.action.start_col>>
         IN  /\ ret.raised = ""
             /\ MergedRegion \subseteq DOMAIN t.at
             /\ \A rc \in MergedRegion : t.at[rc] = first
             /\ \A rc \in DOMAIN t.at \ MergedRegion :
                  /\ t.at[rc] = rc
                  /\ TableCell(t, rc[1], rc[2]) = TableCell(TableBefore, rc[1], rc[2])
             /\ \A k \in 1..Len(tables) : k # out.n => tables[k] = call.had[k]
    /\ (/\ IsFormatCell /\ CellInBounds
        /\ TableBefore.at[<<call.action.row, call.action.col>>]
               # <<call.action.row, call.action.col>>) =>
         LET t == tables[out.n]
             first == TableBefore.at[<<call.action.row, call.action.col>>]
         IN  /\ ret.raised = ""
             /\ t.at = TableBefore.at
             /\ \A rc \in DOMAIN t.cells :
                  rc # first => t.cells[rc] = TableBefore.cells[rc]
             /\ TableCell(t, call.action.row, call.action.col) = t.cells[first]
             /\ (out.ok /\ call.action.f.text # None) =>
                  JoinRuns(t.cells[first].paras[1].runs) = Val(call.action.f.text)

\* C22 witness: on a table of 2 x 2 with text whose first row was merged,
\* format_table_cell gave a text to (0, 1): the text is in the top-left
\* cell, which (0, 0) stands for too, and the second row is as it was.
C22_Witness ==
    /\ IsFormatCell
    /\ call.action.row = 0 /\ call.action.col = 1
    /\ call.action.f.text = Some(<<"T">>)
    /\ out.ok
    /\ TableBefore.rows = 2 /\ TableBefore.cols = 2
    /\ TableBefore.at[<<0, 1>>] = <<0, 0>>
    /\ TableBefore.at[<<1, 0>>] = <<1, 0>>
    /\ JoinRuns(TableCell(tables[out.n], 0, 0).paras[1].runs) = <<"T">>
    /\ CellText(TableCell(tables[out.n], 1, 0)) = <<"b", "A">>
    /\ CellText(TableCell(tables[out.n], 1, 1)) = <<"3", "0">>


----------------------------------------------------------------------------
(* Properties of the element inspector *)

IsAnalyze == call.op = "analyze"

\* What follows "Heading " in a style name of that beginning.
AfterHeading(name) == SubSeq(name, Len(S_Heading) + 2, Len(name))

\* The style name is "Heading <N>" with N an integer, as int() reads it.
IsHeadingN(name) ==
    /\ StartsWith(name, S_Heading \o <<" ">>)
    /\ ParseInt(AfterHeading(name)).ok

\* The type and the level the classification rules give a style name:
\* Title is a heading of level 0, "Heading <N>" with N >= 0 a heading of
\* level N, any other name beginning with Heading that is not
\* "Heading <integer>" a paragraph of level 0, every other name a
\* paragraph without level.
Classification(name) ==
    IF name = S_Title THEN [type |-> Some("heading"), level |-> Some(0)]
    ELSE IF IsHeadingN(name) /\ ParseInt(AfterHeading(name)).v >= 0
    THEN [type |-> Some("heading"), level |-> Some(ParseInt(AfterHeading(name)).v)]
    ELSE IF StartsWith(name, S_Heading) /\ ~IsHeadingN(name)
    THEN [type |-> Some("paragraph"), level |-> Some(0)]
    ELSE [type |-> Some("paragraph"), level |-> None]

\* C23: the inspector classifies each paragraph by its style name alone
\* and never raises: the record of every paragraph has the type and the
\* level the classification rules give its style name.
C23_ClassifiedByStyleName ==
    IsAnalyze =>
        /\ ret.raised = ""
        /\ Len(elements) = Len(doc)
        /\ \A i \in 1..Len(doc) :
             /\ elements[i].type = Classification(doc[i].style).type
             /\ elements[i].level = Classification(doc[i].style).level

\* C24: get_document_analysis returns exactly one record per paragraph of
\* the document, in document order: the record at position i has
\* paragraph_index i and holds the text, the style name, the alignment
\* and the runs of the paragraph at position i, a Title paragraph as a
\* heading of level 0, a "Heading 1" paragraph as a heading of level 1, a
\* Normal paragraph as a paragraph; the document is left as it was.
C24_OneRecordPerParagraph ==
    IsAnalyze =>
        /\ ret.raised = ""
        /\ doc = pre
        /\ tables = <<>>
        /\ Len(elements) = Len(doc)
        /\ \A i \in 1..Len(doc) :
             LET e == elements[i]
                 p == doc[i]
             IN  /\ e.paragraph_index = Some(i - 1)
                 /\ e.style_name = p.style
                 /\ e.alignment = p.alignment
                 /\ e.text = ParagraphText(p.runs)
                 /\ Len(e.runs) = Len(p.runs)
                 /\ \A k \in 1..Len(p.runs) : e.runs[k].text = p.runs[k].text
                 /\ p.style = S_Title =>
                      e.type = Some("heading") /\ e.level = Some(0)
                 /\ p.style = S_Heading \o <<" ", "1">> =>
                      e.type = Some("heading") /\ e.level = Some(1)
                 /\ p.style = S_Normal =>
                      e.type = Some("paragraph") /\ e.level = None

\* C24 witness: a document of a Heading 1 paragraph followed by a Normal
\* paragraph was analyzed into a heading of level 1 and a paragraph, with
\* paragraph_index 0 and 1.
C24_Witness ==
    /\ IsAnalyze
    /\ Len(doc) = 2
    /\ doc[1].style = S_Heading \o <<" ", "1">>
    /\ doc[2].style = S_Normal
    /\ Len(elements) = 2
    /\ elements[1].type = Some("heading") /\ elements[1].level = Some(1)
    /\ elements[2].type = Some("paragraph")
    /\ elements[1].paragraph_index = Some(0)
    /\ elements[2].paragraph_index = Some(1)
    /\ doc = pre


----------------------------------------------------------------------------
(* Properties of the scope resolver over any analysis list *)

\* C25: for every scope string and every analysis list handed to
\* _get_target_paragraphs, in whatever order its records are and whether
\* or not two of them have the same paragraph_index, the paragraphs
\* returned are in strictly ascending document position, none of them
\* twice.
C25_AscendingNoDuplicates ==
    (IsResolve /\ ret.raised = "") => Ascending(ret.paras)


----------------------------------------------------------------------------
(* Properties of the analysis across calls *)

TableOps == {"add_table", "format_table_cell", "merge_table_cells"}

\* The document as it was before the calls made on it.
Loaded == IF call.op = "again" THEN call.loaded ELSE pre

\* C26: an analysis does not become stale through the action handlers and
\* the table operations: for every scope string, the paragraphs it
\* resolves to with the analysis taken before the calls are the
\* paragraphs it resolves to with an analysis taken after them.
C26_AnalysisStaysFresh ==
    (call.op \in Handlers \cup {"again"} \cup TableOps) =>
        \/ doc = Loaded
        \/ LET before == Fresh(Loaded)
               after == Fresh(doc)
           IN  \A scope \in Scopes :
                   _get_target_paragraphs(doc, before, scope)
                       = _get_target_paragraphs(doc, after, scope)

\* C26 witness: set_heading_style was applied twice to a document of two
\* paragraphs with the analysis taken before the first and changed the
\* document, and "headings_level_1" still resolves with that
\* analysis to what it resolves to with a new one, a paragraph at least.
C26_Witness ==
    /\ call.op = "again"
    /\ call.of = "set_heading_style"
    /\ Len(doc) = 2
    /\ call.loaded # doc
    /\ elements = Fresh(call.loaded)
    /\ _get_target_paragraphs(doc, elements, HeadingScope(1)).paras # <<>>
    /\ _get_target_paragraphs(doc, elements, HeadingScope(1))
           = _get_target_paragraphs(doc, Fresh(doc), HeadingScope(1))

----------------------------------------------------------------------------
(* Properties of format_table_cell: flags that are False *)

\* The font arguments of the call are flags set to False and nothing
\* else.
OnlyFalseFlags(f) ==
    /\ f.font_name = None /\ f.font_size = None
    /\ {f.bold, f.italic, f.underline} \subseteq {None, Some(FALSE)}
    /\ Some(FALSE) \in {f.bold, f.italic, f.underline}

\* The first paragraph of the cell once the text of the call is in it.
ParagraphWithText ==
    LET p == TableCell(TableBefore, call.action.row, call.action.col).paras[1]
    IN  IF call.action.f.text # None
        THEN SetParagraphText(p, Val(call.action.f.text)) ELSE p

\* C27: format_table_cell on a cell in bounds with bold, italic or
\* underline set to False and no other font argument returns True and
\* sets that flag to False on every run of the first paragraph of the
\* cell, the runs being those set_paragraph_font_properties leaves with
\* the same flags.
C27_FalseFlagApplied ==
    LET f == call.action.f
    IN  (IsFormatCell /\ CellInBounds /\ OnlyFalseFlags(f)) =>
            /\ out.ok
            /\ \A i \in 1..Len(FormattedParagraph.runs) :
                 RunHasFont(FormattedParagraph.runs[i], f)
            /\ FormattedParagraph.runs =
                 set_paragraph_font_properties(ParagraphWithText, f.font_name,
                     f.font_size, f.bold, f.italic, f.underline).para.runs

----------------------------------------------------------------------------
(* Properties of find_and_replace: the replacement text *)

\* C28: find_and_replace with a non-empty find and any replace_with, the
\* empty one and those with a backslash among them, raises nothing and
\* leaves in each run its text with every occurrence of find replaced by
\* exactly the characters of replace_with.
C28_ReplaceWithVerbatim ==
    IsReplace =>
        /\ ret.raised = ""
        /\ \A p \in 1..Len(doc) : \A r \in 1..Len(doc[p].runs) :
            doc[p].runs[r].text =
                ReplaceAll(pre[p].runs[r].text, call.action.find.str,
                           Val(call.action.replace_with))

----------------------------------------------------------------------------
(* Properties of add_table: what a failed call leaves behind *)

\* C29: whenever add_table returns None the document holds exactly the
\* tables it held before the call, also when the call fails after
\* doc.add_table, while the style is applied or the cells are populated.
C29_FailureLeavesNoTable ==
    (IsAddTable /\ ~out.ok) => tables = call.had

----------------------------------------------------------------------------
(* Properties of format_table_cell: shading applied more than once *)

\* The shading elements of the cell format_table_cell was called for,
\* after the call.
ShadingAfter ==
    TableCell(tables[out.n], call.action.row, call.action.col).shading

\* C30: after format_table_cell has applied a shading to a cell, for the
\* first time or once more, with the same colour or another, the cell
\* properties hold exactly one shading element and its fill is the colour
\* of the last call.
C30_ShadingLastWriterWins ==
    (/\ IsFormatCell /\ CellInBounds /\ out.ok
     /\ TruthyStr(call.action.f.shading)) =>
        ShadingAfter = <<Val(call.action.f.shading)>>

====
